---- MODULE Spec2Model ----
(***************************************************************************)
(* A model of neoneo: the tool-calling conversation engine.                *)
(*   - the tool capabilities (src/src/tools/*.cpp) as operators over their *)
(*     arguments, the configuration, the operator's keypresses and the     *)
(*     behaviour of the environment (subprocess, filesystem);              *)
(*   - the streaming protocol client (src/src/ollama_client.cpp);          *)
(*   - the REPL orchestrator (src/src/main.cpp).                           *)
(* Strings are TLA+ strings; std::string::find, substr and + are modelled  *)
(* with SubSeq, Len and \o.                                                *)
(***************************************************************************)
EXTENDS Integers, Sequences, FiniteSets, TLC

VARIABLES
    \* ---- tool executions (SpecTools) ----
    cfg,            \* the configuration flags the tools read
    fs,             \* the filesystem: [files: path -> content, dirs: set of paths]
    last,           \* the last tool execution: its input, trace and result
    \* ---- REPL orchestrator (Spec) ----
    running,        \* std::atomic<bool> running
    pc,             \* the orchestrator's state
    conversation,   \* std::vector<ChatMessage> conversation
    system_prompt,  \* std::string system_prompt
    response,       \* ChatMessage response of the turn in progress
    next_call,      \* index of the next tool call of the round (loop position)
    full_content,   \* text accumulated by the streaming callback
    requests,       \* model requests issued in the current turn, in order
    turn_start,     \* Len(conversation) just before the turn's user message
    round_start,    \* Len(conversation) when the tool round began
    visited,        \* states the current turn went through
    turns,          \* user turns started so far
    registry,       \* ToolManager::tools: the names registered
    round_log,      \* the tool calls of the round handled so far, with their results
    \* ---- streaming client (SpecStream) ----
    wire,           \* the bytes the server sends in this stream
    response_buffer,\* std::string response_buffer of chat_stream
    emitted,        \* fragments handed to the caller's callback, in order
    sent,           \* the bytes of wire the reads have delivered so far
    stream_pc,      \* "idle" | "receiving" | "done" | "aborted"
    cut_inside,     \* a read of this stream has ended in the middle of a line
    \* ---- Confirmation Gate at the terminal (SpecGate) ----
    tty,            \* the terminal's line discipline: [icanon, echo]
    tty_before,     \* the line discipline when confirm_dialog was called
    old_tio,        \* TerminalRawMode::old_tio
    active,         \* TerminalRawMode::active
    keypress,       \* what read(STDIN_FILENO, &c, 1) gave: [n, c]
    confirmed,      \* the value confirm_dialog returns
    gate_pc,        \* "idle" | "prompted" | "reading" | "leaving" | "got_key" | "returned"
    \* ---- one user turn, call by call (SpecTurn) ----
    at,             \* the function main's thread is in: "main" or the call it waits in
    in_flight,      \* the requests and tool executions started and not yet returned
    pending,        \* the tool execution under way: its call, outcome and prompts left
    \* ---- the output read loop of a subprocess (SpecProc) ----
    proc_tool,      \* the tool that ran popen: shell_tool, bash_tool or calculator
    proc_pc,        \* "feof" | "clock" | "fgets" | "pclose" | "returned"
    proc_timeout,   \* the timeout, in ticks of the clock
    clock,          \* ticks elapsed since start_time
    child,          \* the subprocess: [alive, plan, pos, phase]
    pipe,           \* the pipe from the subprocess: [lines, open]
    eof_flag,       \* feof(pipe)
    out_len,        \* lines accumulated in result
    proc_result,    \* what the loop's tool returns: "none" until it returns
    \* ---- the start of main, before the REPL (SpecStart) ----
    argv,             \* the command line after the program name
    arg_i,            \* the argument the parsing loop is at (i of main, from 1)
    main_config,      \* main's config::Config config
    config_file_path, \* main's config_file_path
    use_config,       \* main's use_config
    save_config,      \* main's save_config
    list_models,      \* main's list_models
    start_pc,         \* "args" | "save" | "connect" | "session" | "exit0" | "exit1" | "idle"
    disk              \* the configuration files: path -> [exists, valid, json]

toolVars   == <<cfg, fs, last>>
orchVars   == <<running, pc, conversation, system_prompt, response, next_call,
                full_content, requests, turn_start, round_start, visited, turns,
                registry, round_log>>
streamVars == <<wire, response_buffer, emitted, sent, stream_pc, cut_inside>>
termVars   == <<tty, tty_before, old_tio, active, keypress, confirmed, gate_pc>>
callVars   == <<at, in_flight, pending>>
procVars   == <<proc_tool, proc_pc, proc_timeout, clock, child, pipe, eof_flag, out_len,
                proc_result>>
startVars  == <<argv, arg_i, main_config, config_file_path, use_config, save_config,
                list_models, start_pc, disk>>
sideVars   == <<termVars, callVars, procVars, startVars>>
\* the components at rest while another one is stepping
notTermVars == <<toolVars, orchVars, streamVars, callVars, procVars, startVars>>
quietVars   == <<streamVars, termVars, procVars, startVars>>
notProcVars == <<toolVars, orchVars, streamVars, termVars, callVars, startVars>>
notStartVars == <<toolVars, orchVars, streamVars, termVars, callVars, procVars>>
vars       == <<toolVars, orchVars, streamVars, sideVars>>

(***************************************************************************)
(* Bounds of the model                                                     *)
(***************************************************************************)
MaxTurns == 2          \* user turns per behaviour of the orchestrator
MaxClock == 3          \* ticks the clock of a subprocess read loop counts (then: "later")
MaxLines == 2          \* lines of output a read loop accepts before its size limit

(***************************************************************************)
(* std::string helpers                                                     *)
(***************************************************************************)
\* s.find(sub) != npos
Contains(s, sub) ==
    \E i \in 1..(Len(s) - Len(sub) + 1) : SubSeq(s, i, i + Len(sub) - 1) = sub

\* s.find(sub), 1-based; 0 when absent
FindPos(s, sub) ==
    IF Contains(s, sub)
    THEN CHOOSE i \in 1..(Len(s) - Len(sub) + 1) :
            /\ SubSeq(s, i, i + Len(sub) - 1) = sub
            /\ \A j \in 1..(i - 1) : SubSeq(s, j, j + Len(sub) - 1) # sub
    ELSE 0

\* the first element of list (a sequence of strings) found in s, or "" if none
FirstFound(s, list) ==
    IF \E k \in 1..Len(list) : Contains(s, list[k])
    THEN list[CHOOSE k \in 1..Len(list) :
                /\ Contains(s, list[k])
                /\ \A j \in 1..(k - 1) : ~Contains(s, list[j])]
    ELSE ""

\* s.substr(0, n)
Truncate(s, n) == IF Len(s) > n THEN SubSeq(s, 1, n) ELSE s

(***************************************************************************)
(* nlohmann::json values: [t |-> type tag, v |-> value]                    *)
(***************************************************************************)
JStr(s) == [t |-> "string", v |-> s]
JNum(n) == [t |-> "number", v |-> n]
JObj(f) == [t |-> "object", v |-> f]
JBool(b) == [t |-> "boolean", v |-> b]
JNull   == [t |-> "null", v |-> "null"]

\* json::contains(key): false on anything that is not an object
JContains(j, key) == j.t = "object" /\ key \in DOMAIN j.v
JIsString(j, key) == JContains(j, key) /\ j.v[key].t = "string"
JIsNumber(j, key) == JContains(j, key) /\ j.v[key].t = "number"
JGet(j, key) == j.v[key].v

\* a JSON integer that does not fit an int: high * 2^32 + low, low being an int
JNumWide(high, low) == [t |-> "number", q |-> high, v |-> low]
\* the part of a number above the 32 bits of an int
JHigh(n) == IF "q" \in DOMAIN n THEN n.q ELSE 0
\* get<int>(): static_cast<int> of the stored 64-bit integer keeps its low 32 bits
JGetInt(j, key) == j.v[key].v

(***************************************************************************)
(* ToolResult (declared in include/neoneo/tools/tools.hpp)                 *)
(***************************************************************************)
ToolResult_success(content) ==
    [is_success |-> TRUE, content |-> content, error_message |-> ""]
ToolResult_error(message) ==
    [is_success |-> FALSE, content |-> "", error_message |-> message]

\* What a tool execution did, in order: Gate prompts, subprocesses, file I/O.
Ev(kind, text) == [e |-> kind, text |-> text]
Outcome(result, trace, newfs) == [result |-> result, trace |-> trace, fs |-> newfs]

(***************************************************************************)
(* Confirmation Gate: terminal::confirm_dialog                             *)
(* key is what get_keypress returned: the byte read, or 0 when read failed *)
(***************************************************************************)
KeyEnterCR == 13
KeyEnterLF == 10
KeyEsc == 27
KeyNone == 0

confirm_dialog(key) == key = KeyEnterCR \/ key = KeyEnterLF

\* the keypress answering the n-th prompt of an execution
KeyAt(keys, n) == IF n <= Len(keys) THEN keys[n] ELSE KeyNone

(***************************************************************************)
(* ShellTool                                                               *)
(***************************************************************************)
ShellBlockedCommands ==
    << "rm", "mkfs", "dd", ">", ">>", "|", "&", ";", "&&", "||",
       "sudo", "su", "chmod", "chown", "passwd", "mv", "curl", "wget",
       "ssh", "scp", "ftp", "telnet", "nc", "ncat", "sleep", "perl",
       "python", "python3", "ruby", "bash", "sh", "zsh", "csh", "ksh" >>

\* operation_found of ShellTool::is_command_safe ("" when the command is safe)
ShellTool_operation_found(command) == FirstFound(command, ShellBlockedCommands)
ShellTool_is_command_safe(command) == ShellTool_operation_found(command) = ""

ShellTimeoutDefault == 5
ShellTimeoutMax == 30

ShellTool_timeout(args) ==
    IF JIsNumber(args, "timeout")
    THEN LET t == JGetInt(args, "timeout")
         IN  IF t > ShellTimeoutMax THEN ShellTimeoutMax ELSE IF t < 1 THEN 1 ELSE t
    ELSE ShellTimeoutDefault

\* The read loop of ShellTool::execute on the spawned subprocess env.
ShellTool_run(command, timeout_seconds, env, trace, fsys) ==
    IF ~env.popen_ok
    THEN Outcome(ToolResult_error("Failed to execute command"), trace, fsys)
    ELSE LET tr == Append(trace, Ev("spawn", command))
         IN  IF env.timed_out
             THEN Outcome(ToolResult_error("Command execution timed out after "
                              \o ToString(timeout_seconds) \o " seconds"), tr, fsys)
             ELSE Outcome(ToolResult_success(
                              IF env.output = ""
                              THEN "Command executed successfully (no output)"
                              ELSE IF Len(env.output) > 1000
                                   THEN SubSeq(env.output, 1, 1000) \o "\n... (output truncated)"
                                   ELSE env.output), tr, fsys)

\* variant: the general confirmation is asked whatever auto-confirm-shell says
ShellTool_confirm_always(command, timeout_seconds, config, keys, env, trace, fsys) ==
    LET tr == Append(trace, Ev("gate", command))
    IN  IF ~confirm_dialog(KeyAt(keys, Len(tr)))
        THEN Outcome(ToolResult_error("Command execution denied by user"), tr, fsys)
        ELSE ShellTool_run(command \o " 2>&1", timeout_seconds, env, tr, fsys)

\* The general confirmation of ShellTool::execute and what follows it.
ShellTool_confirm_and_run(command, timeout_seconds, config, keys, env, trace, fsys) ==
    IF ~config.auto_confirm_shell
    THEN LET tr == Append(trace, Ev("gate", command))
         IN  IF ~confirm_dialog(KeyAt(keys, Len(tr)))
             THEN Outcome(ToolResult_error("Command execution denied by user"), tr, fsys)
             ELSE ShellTool_run(command \o " 2>&1", timeout_seconds, env, tr, fsys)
    ELSE ShellTool_run(command \o " 2>&1", timeout_seconds, env, trace, fsys)

\* variant: the general confirmation is asked before the blocklist prompt
ShellTool_execute_general_first(args, config, keys, env, fsys) ==
    IF ~JIsString(args, "command")
    THEN Outcome(ToolResult_error("Missing or invalid 'command' parameter"), <<>>, fsys)
    ELSE LET command == JGet(args, "command")
             timeout_seconds == ShellTool_timeout(args)
             found == ShellTool_operation_found(command)
             tr1 == IF ~config.auto_confirm_shell THEN <<Ev("gate", command)>> ELSE <<>>
             tr2 == Append(tr1, Ev("gate", "'" \o found \o "' found in: " \o command))
         IN  IF tr1 # <<>> /\ ~confirm_dialog(KeyAt(keys, 1))
             THEN Outcome(ToolResult_error("Command execution denied by user"), tr1, fsys)
             ELSE IF ~config.shell_safety_ignored /\ ~ShellTool_is_command_safe(command)
                  THEN IF ~confirm_dialog(KeyAt(keys, Len(tr2)))
                       THEN Outcome(ToolResult_error(
                                "Command execution aborted due to security concerns with operation: "
                                \o found), tr2, fsys)
                       ELSE ShellTool_run(command \o " 2>&1", timeout_seconds, env, tr2, fsys)
                  ELSE ShellTool_run(command \o " 2>&1", timeout_seconds, env, tr1, fsys)

ShellTool_execute(args, config, keys, env, fsys) ==
    IF ~JIsString(args, "command")
    THEN Outcome(ToolResult_error("Missing or invalid 'command' parameter"), <<>>, fsys)
    ELSE LET command == JGet(args, "command")
             timeout_seconds == ShellTool_timeout(args)
             found == ShellTool_operation_found(command)
         IN  IF ~config.shell_safety_ignored /\ ~ShellTool_is_command_safe(command)
             THEN LET tr == <<Ev("gate", "'" \o found \o "' found in: " \o command)>>
                  IN  IF ~confirm_dialog(KeyAt(keys, 1))
                      THEN Outcome(ToolResult_error(
                               "Command execution aborted due to security concerns with operation: "
                               \o found), tr, fsys)
                      ELSE ShellTool_confirm_and_run(command, timeout_seconds, config,
                                                     keys, env, tr, fsys)
             ELSE ShellTool_confirm_and_run(command, timeout_seconds, config,
                                            keys, env, <<>>, fsys)

(***************************************************************************)
(* BashTool                                                                *)
(***************************************************************************)
BashBlockedCommands ==
    << "rm -rf", "mkfs", "dd if=", "> /dev", "echo > /dev", ">/dev",
       "sudo rm", "sudo mv", "sudo cp", "reboot", "shutdown",
       "passwd", "chmod 777", "chmod -R 777", ":(){ :|:& };:", "fork bomb" >>

BashTool_operation_found(command) == FirstFound(command, BashBlockedCommands)
BashTool_is_command_safe(command) == BashTool_operation_found(command) = ""

BashTimeoutDefault == 10
BashTimeoutMax == 60
BashMaxOutput == 1000000

BashTool_timeout(args) ==
    IF JIsNumber(args, "timeout")
    THEN LET t == JGetInt(args, "timeout")
         IN  IF t > BashTimeoutMax THEN BashTimeoutMax ELSE IF t < 1 THEN 1 ELSE t
    ELSE BashTimeoutDefault

\* the command line after working-directory prefixing
BashTool_command(args) ==
    IF JIsString(args, "working_directory")
    THEN "cd \"" \o JGet(args, "working_directory") \o "\" && " \o JGet(args, "command")
    ELSE JGet(args, "command")

\* BashTool::execute_command: [text, timed_out, spawned]
BashTool_execute_command(command, timeout_seconds, env) ==
    IF ~env.popen_ok
    THEN [text |-> "Error: Failed to execute command", timed_out |-> FALSE, spawned |-> FALSE]
    ELSE IF env.timed_out
    THEN [text |-> "Error: Command execution timed out after "
                    \o ToString(timeout_seconds) \o " seconds.",
          timed_out |-> TRUE, spawned |-> TRUE]
    ELSE LET result == IF Len(env.output) > BashMaxOutput
                       THEN SubSeq(env.output, 1, BashMaxOutput)
                            \o "\n... (output truncated due to size limit)"
                       ELSE env.output
         IN  [text |-> IF env.exit_code = 0
                       THEN IF result = ""
                            THEN "Command executed successfully (no output)"
                            ELSE result
                       ELSE "Command failed with exit code: " \o ToString(env.exit_code) \o "\n"
                            \o (IF result # "" THEN "Output:\n" \o result ELSE ""),
              timed_out |-> FALSE, spawned |-> TRUE]

BashTool_run(command, timeout_seconds, env, trace, fsys) ==
    LET r  == BashTool_execute_command(command, timeout_seconds, env)
        tr == IF r.spawned THEN Append(trace, Ev("spawn", command)) ELSE trace
    IN  IF r.timed_out
        THEN Outcome(ToolResult_error("Command execution timed out after "
                         \o ToString(timeout_seconds) \o " seconds"), tr, fsys)
        ELSE Outcome(ToolResult_success(r.text), tr, fsys)

\* variant: the answer to the general confirmation is not looked at
BashTool_confirm_unchecked(command, timeout_seconds, config, keys, env, trace, fsys) ==
    IF ~config.auto_confirm_shell
    THEN BashTool_run(command \o " 2>&1", timeout_seconds, env,
                      Append(trace, Ev("gate", command)), fsys)
    ELSE BashTool_run(command \o " 2>&1", timeout_seconds, env, trace, fsys)

BashTool_confirm_and_run(command, timeout_seconds, config, keys, env, trace, fsys) ==
    IF ~config.auto_confirm_shell
    THEN LET tr == Append(trace, Ev("gate", command))
         IN  IF ~confirm_dialog(KeyAt(keys, Len(tr)))
             THEN Outcome(ToolResult_error("Command execution denied by user"), tr, fsys)
             ELSE BashTool_run(command \o " 2>&1", timeout_seconds, env, tr, fsys)
    ELSE BashTool_run(command \o " 2>&1", timeout_seconds, env, trace, fsys)

\* variant: the blocklist check and the prompts are made on the command as given,
\* the working directory is prefixed only for the execution
BashTool_execute_checking_bare(args, config, keys, env, fsys) ==
    IF ~JIsString(args, "command")
    THEN Outcome(ToolResult_error("Missing or invalid 'command' parameter"), <<>>, fsys)
    ELSE LET bare == JGet(args, "command")
             command == BashTool_command(args)
             timeout_seconds == BashTool_timeout(args)
             found == BashTool_operation_found(bare)
             blocked == ~config.shell_safety_ignored /\ ~BashTool_is_command_safe(bare)
             tr1 == IF blocked
                    THEN <<Ev("gate", "'" \o found \o "' found in: " \o bare)>>
                    ELSE <<>>
             tr2 == IF ~config.auto_confirm_shell THEN Append(tr1, Ev("gate", bare)) ELSE tr1
         IN  IF blocked /\ ~confirm_dialog(KeyAt(keys, 1))
             THEN Outcome(ToolResult_error(
                      "Command execution aborted due to security concerns with operation: "
                      \o found), tr1, fsys)
             ELSE IF ~config.auto_confirm_shell /\ ~confirm_dialog(KeyAt(keys, Len(tr2)))
                  THEN Outcome(ToolResult_error("Command execution denied by user"), tr2, fsys)
                  ELSE BashTool_run(command \o " 2>&1", timeout_seconds, env, tr2, fsys)

BashTool_execute(args, config, keys, env, fsys) ==
    IF ~JIsString(args, "command")
    THEN Outcome(ToolResult_error("Missing or invalid 'command' parameter"), <<>>, fsys)
    ELSE LET command == BashTool_command(args)
             timeout_seconds == BashTool_timeout(args)
             found == BashTool_operation_found(command)
         IN  IF ~config.shell_safety_ignored /\ ~BashTool_is_command_safe(command)
             THEN LET tr == <<Ev("gate", "'" \o found \o "' found in: " \o command)>>
                  IN  IF ~confirm_dialog(KeyAt(keys, 1))
                      THEN Outcome(ToolResult_error(
                               "Command execution aborted due to security concerns with operation: "
                               \o found), tr, fsys)
                      ELSE BashTool_confirm_and_run(command, timeout_seconds, config,
                                                    keys, env, tr, fsys)
             ELSE BashTool_confirm_and_run(command, timeout_seconds, config,
                                           keys, env, <<>>, fsys)

(***************************************************************************)
(* CalculatorTool                                                          *)
(***************************************************************************)
CalcBlockedPatterns ==
    << "system", "exec", "shell", "quit", "halt", "cd", "rm", "mv" >>

CalcAllowedChars ==
    "0123456789.+-*/^%() \t\nabcdefghijklmnopqrstuvwxyzABCDEFGHIJKLMNOPQRSTUVWXYZ_"

CalcMaxExpression == 500
CalcMaxResult == 1000

CalculatorTool_pattern_found(expression) == FirstFound(expression, CalcBlockedPatterns)
CalculatorTool_is_expression_safe(expression) == CalculatorTool_pattern_found(expression) = ""

\* the loop that keeps the allowed characters of the expression, in their order
\* (computed by halves, so that long expressions need no deep recursion)
RECURSIVE CalculatorTool_sanitize(_)
CalculatorTool_sanitize(expression) ==
    IF expression = "" THEN ""
    ELSE IF Len(expression) = 1
    THEN IF Contains(CalcAllowedChars, expression) THEN expression ELSE ""
    ELSE LET half == Len(expression) \div 2
         IN  CalculatorTool_sanitize(SubSeq(expression, 1, half))
             \o CalculatorTool_sanitize(SubSeq(expression, half + 1, Len(expression)))

IsSpace(c) == c = " " \/ c = "\t" \/ c = "\n"

RECURSIVE TrimLeft(_)
TrimLeft(s) ==
    IF s # "" /\ IsSpace(SubSeq(s, 1, 1)) THEN TrimLeft(SubSeq(s, 2, Len(s))) ELSE s

RECURSIVE TrimRight(_)
TrimRight(s) ==
    IF s # "" /\ IsSpace(SubSeq(s, Len(s), Len(s)))
    THEN TrimRight(SubSeq(s, 1, Len(s) - 1)) ELSE s

Trim(s) == TrimRight(TrimLeft(s))

\* popen of the evaluator and the read loop of CalculatorTool::execute
CalculatorTool_run(sanitized_expression, env, trace, fsys) ==
    LET cmd == "echo '" \o Truncate(sanitized_expression, CalcMaxExpression)
               \o "' | BC_LINE_LENGTH=0 bc -l"
    IN  IF ~env.popen_ok
        THEN Outcome(ToolResult_error("Failed to execute calculation"), trace, fsys)
        ELSE LET tr == Append(trace, Ev("spawn", cmd))
                 result == Trim(env.output)
             IN  IF env.timed_out
                 THEN Outcome(ToolResult_error(
                        "Calculation timed out (possible infinite loop or too complex)"), tr, fsys)
                 ELSE IF Len(env.output) > CalcMaxResult
                 THEN Outcome(ToolResult_error("Result too large"), tr, fsys)
                 ELSE IF result = ""
                 THEN Outcome(ToolResult_error("Invalid expression or no result"), tr, fsys)
                 ELSE IF Contains(result, "syntax error") \/ Contains(result, "error")
                 THEN Outcome(ToolResult_error("Error: " \o result), tr, fsys)
                 ELSE Outcome(ToolResult_success(result), tr, fsys)

\* variant: the blocklist is checked on the expression as given, not as sanitized
CalculatorTool_execute_raw_check(args, config, keys, env, fsys) ==
    IF ~JIsString(args, "expression")
    THEN Outcome(ToolResult_error("Missing or invalid 'expression' parameter"), <<>>, fsys)
    ELSE LET expression == JGet(args, "expression")
             sanitized_expression == CalculatorTool_sanitize(expression)
             found == CalculatorTool_pattern_found(expression)
         IN  IF ~config.calc_safety_ignored /\ ~CalculatorTool_is_expression_safe(expression)
             THEN LET tr == <<Ev("gate", "'" \o found \o "' found in: " \o expression)>>
                  IN  IF ~confirm_dialog(KeyAt(keys, 1))
                      THEN Outcome(ToolResult_error(
                               "Calculation aborted due to security concerns with pattern: "
                               \o found), tr, fsys)
                      ELSE CalculatorTool_run(sanitized_expression, env, tr, fsys)
             ELSE CalculatorTool_run(sanitized_expression, env, <<>>, fsys)

\* variant: the sanitized expression is cut to its maximal length before the
\* blocklist is checked
CalculatorTool_execute_truncating_first(args, config, keys, env, fsys) ==
    IF ~JIsString(args, "expression")
    THEN Outcome(ToolResult_error("Missing or invalid 'expression' parameter"), <<>>, fsys)
    ELSE LET expression == JGet(args, "expression")
             sanitized_expression ==
                 Truncate(CalculatorTool_sanitize(expression), CalcMaxExpression)
             found == CalculatorTool_pattern_found(sanitized_expression)
         IN  IF ~config.calc_safety_ignored
                /\ ~CalculatorTool_is_expression_safe(sanitized_expression)
             THEN LET tr == <<Ev("gate", "'" \o found \o "' found in: " \o expression)>>
                  IN  IF ~confirm_dialog(KeyAt(keys, 1))
                      THEN Outcome(ToolResult_error(
                               "Calculation aborted due to security concerns with pattern: "
                               \o found), tr, fsys)
                      ELSE CalculatorTool_run(sanitized_expression, env, tr, fsys)
             ELSE CalculatorTool_run(sanitized_expression, env, <<>>, fsys)

CalculatorTool_execute(args, config, keys, env, fsys) ==
    IF ~JIsString(args, "expression")
    THEN Outcome(ToolResult_error("Missing or invalid 'expression' parameter"), <<>>, fsys)
    ELSE LET expression == JGet(args, "expression")
             sanitized_expression == CalculatorTool_sanitize(expression)
             found == CalculatorTool_pattern_found(sanitized_expression)
         IN  IF ~config.calc_safety_ignored
                /\ ~CalculatorTool_is_expression_safe(sanitized_expression)
             THEN LET tr == <<Ev("gate", "'" \o found \o "' found in: " \o expression)>>
                  IN  IF ~confirm_dialog(KeyAt(keys, 1))
                      THEN Outcome(ToolResult_error(
                               "Calculation aborted due to security concerns with pattern: "
                               \o found), tr, fsys)
                      ELSE CalculatorTool_run(sanitized_expression, env, tr, fsys)
             ELSE CalculatorTool_run(sanitized_expression, env, <<>>, fsys)

(***************************************************************************)
(* Filesystem primitives used by the file tools                            *)
(***************************************************************************)
\* 1-based index of the last '/' of p, 0 when there is none
LastSlash(p) ==
    IF Contains(p, "/")
    THEN CHOOSE i \in 1..Len(p) :
            /\ SubSeq(p, i, i) = "/"
            /\ \A j \in (i + 1)..Len(p) : SubSeq(p, j, j) # "/"
    ELSE 0

\* fs::path(p).parent_path()
ParentPath(p) ==
    LET i == LastSlash(p)
    IN  IF i = 0 THEN "" ELSE IF i = 1 THEN "/" ELSE SubSeq(p, 1, i - 1)

\* p and the directories above it
RECURSIVE SelfAndAncestors(_)
SelfAndAncestors(p) ==
    IF p = "" \/ p = "/" THEN {} ELSE {p} \cup SelfAndAncestors(ParentPath(p))

FsExists(fsys, p) == p \in DOMAIN fsys.files \/ p \in fsys.dirs
FsIsRegularFile(fsys, p) == p \in DOMAIN fsys.files

\* std::ofstream(p) opens: p is no directory, its directory exists, and the OS lets it
FsCanOpenForWrite(fsys, p, env) ==
    /\ env.write_ok
    /\ p # ""
    /\ p \notin fsys.dirs
    /\ (ParentPath(p) \in {"", "/"} \/ ParentPath(p) \in fsys.dirs)

\* file << content
FsWrite(fsys, p, content) ==
    [fsys EXCEPT !.files = [q \in DOMAIN fsys.files \cup {p} |->
                               IF q = p THEN content ELSE fsys.files[q]]]

\* what reading p gives (a directory opens and reads as empty)
FsRead(fsys, p) == IF p \in DOMAIN fsys.files THEN fsys.files[p] ELSE ""

(***************************************************************************)
(* FileReadTool                                                            *)
(***************************************************************************)
FileReadMaxSize == 50000

\* a FileRead without the directory traversal check
FileReadTool_execute_any_path(args, config, keys, env, fsys) ==
    IF ~JIsString(args, "path")
    THEN Outcome(ToolResult_error("Missing or invalid 'path' parameter"), <<>>, fsys)
    ELSE LET file_path == JGet(args, "path")
         IN  IF ~FsIsRegularFile(fsys, file_path) \/ ~env.open_ok
             THEN Outcome(ToolResult_error("Could not open file: " \o file_path), <<>>, fsys)
             ELSE Outcome(ToolResult_success(FsRead(fsys, file_path)),
                          <<Ev("read", file_path)>>, fsys)

\* a FileRead that takes a raw string payload as the path
FileReadTool_execute_raw_path(args, config, keys, env, fsys) ==
    IF ~JIsString(args, "path") /\ args.t # "string"
    THEN Outcome(ToolResult_error("Missing or invalid 'path' parameter"), <<>>, fsys)
    ELSE LET file_path == IF args.t = "string" THEN args.v ELSE JGet(args, "path")
         IN  IF Contains(file_path, "..")
             THEN Outcome(ToolResult_error("Path contains forbidden '..' sequence"), <<>>, fsys)
             ELSE IF ~FsIsRegularFile(fsys, file_path) \/ ~env.open_ok
             THEN Outcome(ToolResult_error("Could not open file: " \o file_path), <<>>, fsys)
             ELSE Outcome(ToolResult_success(FsRead(fsys, file_path)),
                          <<Ev("read", file_path)>>, fsys)

FileReadTool_execute(args, config, keys, env, fsys) ==
    IF ~JIsString(args, "path")
    THEN Outcome(ToolResult_error("Missing or invalid 'path' parameter"), <<>>, fsys)
    ELSE LET file_path == JGet(args, "path")
         IN  IF Contains(file_path, "..")
             THEN Outcome(ToolResult_error("Path contains forbidden '..' sequence"), <<>>, fsys)
             ELSE IF ~FsExists(fsys, file_path)
             THEN Outcome(ToolResult_error("File does not exist: " \o file_path), <<>>, fsys)
             ELSE IF ~FsIsRegularFile(fsys, file_path)
             THEN Outcome(ToolResult_error("Not a regular file: " \o file_path), <<>>, fsys)
             ELSE IF ~env.open_ok
             THEN Outcome(ToolResult_error("Could not open file: " \o file_path), <<>>, fsys)
             ELSE LET content == FsRead(fsys, file_path)
                  IN  Outcome(ToolResult_success(
                                 IF Len(content) > FileReadMaxSize
                                 THEN SubSeq(content, 1, FileReadMaxSize)
                                      \o "\n... (content truncated, file too large)"
                                 ELSE content),
                              <<Ev("read", file_path)>>, fsys)

(***************************************************************************)
(* FileWriteTool                                                           *)
(***************************************************************************)
FileWritePreviewMax == 200

\* create the parent directories, open and write (after the confirmation)
FileWriteTool_write(file_path, content, env, trace, fsys) ==
    LET dir_path == ParentPath(file_path)
        missing  == ~(dir_path = "") /\ ~FsExists(fsys, dir_path)
    IN  IF missing /\ (SelfAndAncestors(dir_path) \cap DOMAIN fsys.files # {} \/ ~env.mkdir_ok)
        THEN \* fs::create_directories throws; caught by the handler of execute
             Outcome(ToolResult_error("Error writing file: filesystem error"), trace, fsys)
        ELSE LET fs1 == IF missing
                        THEN [fsys EXCEPT !.dirs = @ \cup SelfAndAncestors(dir_path)]
                        ELSE fsys
                 tr1 == IF missing THEN Append(trace, Ev("mkdir", dir_path)) ELSE trace
             IN  IF ~FsCanOpenForWrite(fs1, file_path, env)
                 THEN Outcome(ToolResult_error("Could not open file for writing: "
                                               \o file_path), tr1, fs1)
                 ELSE Outcome(ToolResult_success("File successfully written: " \o file_path
                                  \o " (" \o ToString(Len(content)) \o " bytes)"),
                              Append(tr1, Ev("write", file_path)),
                              FsWrite(fs1, file_path, content))

\* variant: the parent directories are created before the confirmation is asked
FileWriteTool_execute_mkdir_first(args, config, keys, env, fsys) ==
    IF ~JIsString(args, "path")
    THEN Outcome(ToolResult_error("Missing or invalid 'path' parameter"), <<>>, fsys)
    ELSE IF ~JIsString(args, "content")
    THEN Outcome(ToolResult_error("Missing or invalid 'content' parameter"), <<>>, fsys)
    ELSE LET file_path == JGet(args, "path")
             content == JGet(args, "content")
             dir_path == ParentPath(file_path)
             missing == ~(dir_path = "") /\ ~FsExists(fsys, dir_path)
                        /\ SelfAndAncestors(dir_path) \cap DOMAIN fsys.files = {}
             fs1 == IF missing
                    THEN [fsys EXCEPT !.dirs = @ \cup SelfAndAncestors(dir_path)]
                    ELSE fsys
             tr1 == IF missing THEN <<Ev("mkdir", dir_path)>> ELSE <<>>
         IN  IF Contains(file_path, "..")
             THEN Outcome(ToolResult_error("Path contains forbidden '..' sequence"), <<>>, fsys)
             ELSE IF ~config.auto_confirm_file_ops
             THEN LET tr == Append(tr1, Ev("gate", file_path))
                  IN  IF ~confirm_dialog(KeyAt(keys, 1))
                      THEN Outcome(ToolResult_error("File write operation denied by user"),
                                   tr, fs1)
                      ELSE FileWriteTool_write(file_path, content, env, tr, fs1)
             ELSE FileWriteTool_write(file_path, content, env, tr1, fs1)

FileWriteTool_execute(args, config, keys, env, fsys) ==
    IF ~JIsString(args, "path")
    THEN Outcome(ToolResult_error("Missing or invalid 'path' parameter"), <<>>, fsys)
    ELSE IF ~JIsString(args, "content")
    THEN Outcome(ToolResult_error("Missing or invalid 'content' parameter"), <<>>, fsys)
    ELSE LET file_path == JGet(args, "path")
             content == JGet(args, "content")
         IN  IF Contains(file_path, "..")
             THEN Outcome(ToolResult_error("Path contains forbidden '..' sequence"), <<>>, fsys)
             ELSE IF ~config.auto_confirm_file_ops
             THEN LET content_preview ==
                          IF Len(content) > FileWritePreviewMax
                          THEN SubSeq(content, 1, FileWritePreviewMax) \o "... (truncated)"
                          ELSE content
                      tr == <<Ev("gate", file_path \o "\nContent (preview):\n" \o content_preview)>>
                  IN  IF ~confirm_dialog(KeyAt(keys, 1))
                      THEN Outcome(ToolResult_error("File write operation denied by user"),
                                   tr, fsys)
                      ELSE FileWriteTool_write(file_path, content, env, tr, fsys)
             ELSE FileWriteTool_write(file_path, content, env, <<>>, fsys)

(***************************************************************************)
(* FileEditTool                                                            *)
(***************************************************************************)
FileEditPreviewMax == 100

\* the lines std::getline reads from content
RECURSIVE GetLines(_)
GetLines(content) ==
    IF content = "" THEN <<>>
    ELSE LET i == FindPos(content, "\n")
         IN  IF i = 0 THEN <<content>>
             ELSE <<SubSeq(content, 1, i - 1)>> \o GetLines(SubSeq(content, i + 1, Len(content)))

\* lines joined by '\n', none after the last
RECURSIVE JoinLines(_)
JoinLines(lines) ==
    IF lines = <<>> THEN ""
    ELSE IF Len(lines) = 1 THEN lines[1]
    ELSE lines[1] \o "\n" \o JoinLines(Tail(lines))

\* lines.insert(lines.begin() + n, text)
InsertAt(lines, n, text) ==
    SubSeq(lines, 1, n) \o <<text>> \o SubSeq(lines, n + 1, Len(lines))

\* a choice that looks for prepend before append
FileEditTool_operation_prepend_first(args) ==
    IF JIsString(args, "replace_all") THEN "REPLACE_ALL"
    ELSE IF JIsString(args, "old_text") /\ JIsString(args, "new_text") THEN "REPLACE_TEXT"
    ELSE IF JIsString(args, "prepend") THEN "PREPEND"
    ELSE IF JIsString(args, "append") THEN "APPEND"
    ELSE IF JIsNumber(args, "insert_at_line") /\ JIsString(args, "text") THEN "INSERT_LINE"
    ELSE "UNKNOWN"

\* enum EditOp, chosen by the argument set present
FileEditTool_operation(args) ==
    IF JIsString(args, "replace_all") THEN "REPLACE_ALL"
    ELSE IF JIsString(args, "old_text") /\ JIsString(args, "new_text") THEN "REPLACE_TEXT"
    ELSE IF JIsString(args, "append") THEN "APPEND"
    ELSE IF JIsString(args, "prepend") THEN "PREPEND"
    ELSE IF JIsNumber(args, "insert_at_line") /\ JIsString(args, "text") THEN "INSERT_LINE"
    ELSE "UNKNOWN"

FileEditTool_format_preview(text) ==
    IF Len(text) > FileEditPreviewMax
    THEN SubSeq(text, 1, FileEditPreviewMax) \o "... (truncated)"
    ELSE text

\* the details shown at the Gate
FileEditTool_details(args, operation) ==
    IF operation = "REPLACE_ALL"
    THEN "Operation: Replace entire file\nNew Content: "
         \o FileEditTool_format_preview(JGet(args, "replace_all"))
    ELSE IF operation = "REPLACE_TEXT"
    THEN "Operation: Replace text in file\nOld Text: "
         \o FileEditTool_format_preview(JGet(args, "old_text"))
         \o "\nNew Text: " \o FileEditTool_format_preview(JGet(args, "new_text"))
    ELSE IF operation = "APPEND"
    THEN "Operation: Append to file\nNew Content: "
         \o FileEditTool_format_preview(JGet(args, "append"))
    ELSE IF operation = "PREPEND"
    THEN "Operation: Prepend to file\nNew Content: "
         \o FileEditTool_format_preview(JGet(args, "prepend"))
    ELSE "Operation: Insert at line " \o ToString(JGet(args, "insert_at_line"))
         \o "\nNew Content: " \o FileEditTool_format_preview(JGet(args, "text"))

\* an insert-at-line that counts a negative line number as the end of the file
FileEditTool_insert_line_from_end(content, line_number, text) ==
    LET lines == GetLines(content)
        n == IF line_number < 0 \/ line_number > Len(lines) THEN Len(lines) ELSE line_number
    IN  JoinLines(InsertAt(lines, n, text))

\* the insert-at-line case of the switch
FileEditTool_insert_line(content, line_number, text) ==
    LET lines == GetLines(content)
        n == IF line_number < 0 THEN 0
             ELSE IF line_number > Len(lines) THEN Len(lines) ELSE line_number
    IN  JoinLines(InsertAt(lines, n, text))

\* a switch whose find/replace adds new_text at the end when old_text is absent
FileEditTool_apply_lenient(args, operation, content) ==
    IF operation = "REPLACE_ALL"
    THEN [ok |-> TRUE, content |-> JGet(args, "replace_all")]
    ELSE IF operation = "REPLACE_TEXT"
    THEN LET old_text == JGet(args, "old_text")
             pos == FindPos(content, old_text)
         IN  IF pos = 0
             THEN [ok |-> TRUE, content |-> content \o JGet(args, "new_text")]
             ELSE [ok |-> TRUE,
                   content |-> SubSeq(content, 1, pos - 1) \o JGet(args, "new_text")
                               \o SubSeq(content, pos + Len(old_text), Len(content))]
    ELSE IF operation = "APPEND"
    THEN [ok |-> TRUE, content |-> content \o JGet(args, "append")]
    ELSE IF operation = "PREPEND"
    THEN [ok |-> TRUE, content |-> JGet(args, "prepend") \o content]
    ELSE [ok |-> TRUE,
          content |-> FileEditTool_insert_line(content, JGet(args, "insert_at_line"),
                                               JGet(args, "text"))]

\* the switch of FileEditTool::execute: [ok, content]
FileEditTool_apply(args, operation, content) ==
    IF operation = "REPLACE_ALL"
    THEN [ok |-> TRUE, content |-> JGet(args, "replace_all")]
    ELSE IF operation = "REPLACE_TEXT"
    THEN LET old_text == JGet(args, "old_text")
             pos == FindPos(content, old_text)
         IN  IF pos = 0
             THEN [ok |-> FALSE, content |-> content]
             ELSE [ok |-> TRUE,
                   content |-> SubSeq(content, 1, pos - 1) \o JGet(args, "new_text")
                               \o SubSeq(content, pos + Len(old_text), Len(content))]
    ELSE IF operation = "APPEND"
    THEN [ok |-> TRUE, content |-> content \o JGet(args, "append")]
    ELSE IF operation = "PREPEND"
    THEN [ok |-> TRUE, content |-> JGet(args, "prepend") \o content]
    ELSE [ok |-> TRUE,
          content |-> FileEditTool_insert_line(content, JGet(args, "insert_at_line"),
                                               JGet(args, "text"))]

\* the edit and the write back (after the confirmation)
FileEditTool_edit(args, operation, file_path, content, env, trace, fsys) ==
    LET r == FileEditTool_apply(args, operation, content)
    IN  IF ~r.ok
        THEN Outcome(ToolResult_error("Could not find the text to replace in the file"),
                     trace, fsys)
        ELSE IF ~FsCanOpenForWrite(fsys, file_path, env)
        THEN Outcome(ToolResult_error("Could not open file for writing: " \o file_path),
                     trace, fsys)
        ELSE Outcome(ToolResult_success("File successfully edited: " \o file_path),
                     Append(trace, Ev("write", file_path)),
                     FsWrite(fsys, file_path, r.content))

FileEditTool_execute(args, config, keys, env, fsys) ==
    IF ~JIsString(args, "path")
    THEN Outcome(ToolResult_error("Missing or invalid 'path' parameter"), <<>>, fsys)
    ELSE LET file_path == JGet(args, "path")
             operation == FileEditTool_operation(args)
             content   == FsRead(fsys, file_path)
             tr0       == <<Ev("read", file_path)>>
         IN  IF Contains(file_path, "..")
             THEN Outcome(ToolResult_error("Path contains forbidden '..' sequence"), <<>>, fsys)
             ELSE IF ~FsExists(fsys, file_path)
             THEN Outcome(ToolResult_error("File does not exist: " \o file_path), <<>>, fsys)
             ELSE IF ~env.open_ok
             THEN Outcome(ToolResult_error("Could not open file for reading: " \o file_path),
                          <<>>, fsys)
             ELSE IF operation = "UNKNOWN"
             THEN Outcome(ToolResult_error("No valid edit operation specified. Use 'replace_all', "
                              \o "'old_text'+'new_text', 'append', 'prepend', or "
                              \o "'insert_at_line'+'text'"), tr0, fsys)
             ELSE IF ~config.auto_confirm_file_ops
             THEN LET tr == Append(tr0, Ev("gate", file_path \o "\n"
                                               \o FileEditTool_details(args, operation)))
                  IN  IF ~confirm_dialog(KeyAt(keys, 1))
                      THEN Outcome(ToolResult_error("File edit operation denied by user"),
                                   tr, fsys)
                      ELSE FileEditTool_edit(args, operation, file_path, content, env, tr, fsys)
             ELSE FileEditTool_edit(args, operation, file_path, content, env, tr0, fsys)

(***************************************************************************)
(* ModelListTool                                                           *)
(***************************************************************************)
RECURSIVE ModelListTool_listing(_, _)
ModelListTool_listing(models, i) ==
    IF i > Len(models) THEN ""
    ELSE "  " \o ToString(i) \o ". " \o models[i] \o "\n" \o ModelListTool_listing(models, i + 1)

ModelListTool_execute(args, config, keys, env, fsys) ==
    LET host == IF JIsString(args, "host") THEN JGet(args, "host") ELSE config.host
    IN  IF ~env.server_ok
        THEN Outcome(ToolResult_error("Could not connect to Ollama server at " \o host),
                     <<Ev("connect", host)>>, fsys)
        ELSE IF env.models = <<>>
        THEN Outcome(ToolResult_success("No models found on Ollama server at " \o host),
                     <<Ev("connect", host)>>, fsys)
        ELSE Outcome(ToolResult_success("Available models on Ollama server at " \o host \o ":\n"
                                        \o ModelListTool_listing(env.models, 1)),
                     <<Ev("connect", host)>>, fsys)

(***************************************************************************)
(* ToolManager: the registry                                               *)
(***************************************************************************)
\* get_name() of each tool (include/neoneo/tools/tools.hpp)
CalculatorName == "calculator"
ShellName      == "shell_tool"
BashName       == "bash_tool"
ModelListName  == "model_list"
FileReadName   == "file_read"
FileWriteName  == "file_write"
FileEditName   == "file_edit"

\* a registration that adds Bash whatever the shell flag says
ToolManager_register_bash_always(config) ==
    {CalculatorName, BashName}
    \cup (IF config.shell_enabled THEN {ShellName} ELSE {})
    \cup (IF config.model_list_enabled THEN {ModelListName} ELSE {})
    \cup (IF config.file_ops_enabled THEN {FileReadName, FileWriteName, FileEditName} ELSE {})

\* the keys of ToolManager::tools after register_default_tools
ToolManager_register_default_tools(config) ==
    {CalculatorName}
    \cup (IF config.shell_enabled THEN {ShellName, BashName} ELSE {})
    \cup (IF config.model_list_enabled THEN {ModelListName} ELSE {})
    \cup (IF config.file_ops_enabled THEN {FileReadName, FileWriteName, FileEditName} ELSE {})

\* the registry main builds at startup
Registry(config) ==
    IF config.tools_enabled THEN ToolManager_register_default_tools(config) ELSE {}

\* a lookup that finds every name
ToolManager_has_tool_any(tools, name) == TRUE

ToolManager_has_tool(tools, name) == name \in tools

\* it->second->execute(args): the virtual call
Tool_execute(name, args, config, keys, env, fsys) ==
    CASE name = CalculatorName -> CalculatorTool_execute(args, config, keys, env, fsys)
      [] name = ShellName      -> ShellTool_execute(args, config, keys, env, fsys)
      [] name = BashName       -> BashTool_execute(args, config, keys, env, fsys)
      [] name = ModelListName  -> ModelListTool_execute(args, config, keys, env, fsys)
      [] name = FileReadName   -> FileReadTool_execute(args, config, keys, env, fsys)
      [] name = FileWriteName  -> FileWriteTool_execute(args, config, keys, env, fsys)
      [] name = FileEditName   -> FileEditTool_execute(args, config, keys, env, fsys)

ToolManager_execute_tool(tools, name, args, config, keys, env, fsys) ==
    IF name \notin tools
    THEN Outcome(ToolResult_error("Tool not found: " \o name), <<>>, fsys)
    ELSE Tool_execute(name, args, config, keys, env, fsys)

(***************************************************************************)
(* Inputs of the tool exploration                                          *)
(***************************************************************************)
Flags(acs, acf, ics, iss) ==
    [tools_enabled |-> TRUE, shell_enabled |-> TRUE, file_ops_enabled |-> TRUE,
     model_list_enabled |-> TRUE, debug_mode |-> FALSE,
     auto_confirm_shell |-> acs, auto_confirm_file_ops |-> acf,
     calc_safety_ignored |-> ics, shell_safety_ignored |-> iss,
     host |-> "http://localhost:11434"]

ToolConfigs ==
    {Flags(acs, acf, ics, iss) : acs \in BOOLEAN, acf \in BOOLEAN,
                                 ics \in BOOLEAN, iss \in BOOLEAN}

Keys == {KeyEnterCR, KeyEnterLF, KeyEsc, KeyNone}
\* what the operator presses at the first and at the second prompt
KeySeqs ==
    { <<KeyEnterCR, KeyEnterCR>>, <<KeyEnterCR, KeyEsc>>, <<KeyEsc, KeyEnterCR>>,
      <<KeyEnterLF, KeyEnterLF>>, <<KeyEnterLF, KeyNone>>, <<KeyNone, KeyEnterCR>> }

EnvOk ==
    [popen_ok |-> TRUE, timed_out |-> FALSE, output |-> "4\n", exit_code |-> 0,
     open_ok |-> TRUE, write_ok |-> TRUE, mkdir_ok |-> TRUE,
     server_ok |-> TRUE, models |-> <<"llama3">>]

\* behaviours of the subprocess
ProcEnvs ==
    { EnvOk,
      [EnvOk EXCEPT !.output = ""],
      [EnvOk EXCEPT !.output = "syntax error", !.exit_code = 1],
      [EnvOk EXCEPT !.timed_out = TRUE],
      [EnvOk EXCEPT !.popen_ok = FALSE] }

\* behaviours of the filesystem
FileEnvs ==
    { EnvOk,
      [EnvOk EXCEPT !.open_ok = FALSE],
      [EnvOk EXCEPT !.write_ok = FALSE],
      [EnvOk EXCEPT !.mkdir_ok = FALSE] }

\* behaviours of the server
NetEnvs ==
    { EnvOk,
      [EnvOk EXCEPT !.server_ok = FALSE],
      [EnvOk EXCEPT !.models = <<>>] }

NoFiles == [p \in {} |-> ""]

InitialFs ==
    { [files |-> NoFiles, dirs |-> {}],
      [files |-> ("a.txt" :> "one\ntwo\nthree") @@ ("d/b.txt" :> "hello")
                 @@ ("../a.txt" :> "above"),
       dirs |-> {"d", ".."}],
      [files |-> ("d" :> "x"), dirs |-> {}] }

Cmd(c) == JObj([command |-> JStr(c)])

ShellArgs ==
    { Cmd("ls"), Cmd("rm x"), Cmd("echo hi > f"), Cmd("date"),
      JObj([command |-> JStr("ls"), timeout |-> JNum(99)]),
      JObj([command |-> JStr("ls"), timeout |-> JNum(0)]),
      JObj([command |-> JStr("ls"), timeout |-> JNum(-3)]),
      JObj([command |-> JStr("ls"), timeout |-> JNum(7)]),
      JObj([command |-> JStr("ls"), timeout |-> JNumWide(1, 1)]),
      JObj([command |-> JStr("ls"), timeout |-> JStr("7")]),
      JObj([command |-> JNum(1)]),
      JObj([timeout |-> JNum(5)]),
      JStr("ls") }

BashArgs ==
    { Cmd("ls"), Cmd("rm x"), Cmd("rm -rf /tmp/x"), Cmd("sudo rm f"),
      JObj([command |-> JStr("ls"), timeout |-> JNum(99)]),
      JObj([command |-> JStr("ls"), timeout |-> JNum(0)]),
      JObj([command |-> JStr("ls"), timeout |-> JNumWide(1, 1)]),
      JObj([command |-> JStr("ls"), working_directory |-> JStr("/tmp")]),
      JObj([command |-> JStr("-rf x"), working_directory |-> JStr("a\" && rm \"")]),
      JObj([command |-> JStr("ls"), working_directory |-> JStr("x\"; rm -rf \"/")]),
      JObj([command |-> JStr("ls"), working_directory |-> JNum(3)]),
      JObj([command |-> JNull]),
      JStr("ls") }

Expr(e) == JObj([expression |-> JStr(e)])

\* n copies of s
RECURSIVE Repeat(_, _)
Repeat(s, n) ==
    IF n = 0 THEN ""
    ELSE IF n % 2 = 1 THEN s \o Repeat(s, n - 1)
    ELSE LET half == Repeat(s, n \div 2) IN half \o half

\* 504 characters: 500 of sums, then a blocked pattern behind a character that
\* is not allowed
LongExpression == Repeat("1+", 250) \o "1;rm"

CalcArgs ==
    { Expr("2+2"), Expr("sqrt(16)"), Expr("system(1)"), Expr("c;d"), Expr("2+2; $x"),
      Expr("r&m"), Expr(""), JObj([expression |-> JNum(4)]), JObj([expr |-> JStr("2+2")]),
      JStr("2+2"), Expr(LongExpression) }

FileReadArgs ==
    { JObj([path |-> JStr("a.txt")]), JObj([path |-> JStr("d/b.txt")]),
      JObj([path |-> JStr("d")]), JObj([path |-> JStr("../a.txt")]),
      JObj([path |-> JStr("nope")]), JObj([path |-> JNum(1)]), JStr("a.txt") }

WriteTo(path, content) == JObj([path |-> JStr(path), content |-> JStr(content)])

FileWriteArgs ==
    { WriteTo("a.txt", "new"), WriteTo("c.txt", ""), WriteTo("d/b.txt", "x"),
      WriteTo("e/f/g.txt", "deep"), WriteTo("d", "x"), WriteTo("../x", "up"),
      WriteTo("d/../x", "up"), JObj([path |-> JStr("a.txt")]),
      JObj([content |-> JStr("x")]), JObj([path |-> JStr("a.txt"), content |-> JNum(1)]),
      JStr("a.txt") }

EditPaths == {"a.txt", "nope", "../a.txt"}

FileEditArgs ==
    UNION { { JObj([path |-> JStr(f), replace_all |-> JStr("all")]),
              JObj([path |-> JStr(f), old_text |-> JStr("two"), new_text |-> JStr("2")]),
              JObj([path |-> JStr(f), old_text |-> JStr("zzz"), new_text |-> JStr("2")]),
              JObj([path |-> JStr(f), old_text |-> JStr("two")]),
              JObj([path |-> JStr(f), append |-> JStr("!")]),
              JObj([path |-> JStr(f), prepend |-> JStr(">")]),
              JObj([path |-> JStr(f), insert_at_line |-> JNum(1), text |-> JStr("ins")]),
              JObj([path |-> JStr(f), insert_at_line |-> JNum(-5), text |-> JStr("ins")]),
              JObj([path |-> JStr(f), insert_at_line |-> JNum(99), text |-> JStr("ins")]),
              JObj([path |-> JStr(f), insert_at_line |-> JStr("1"), text |-> JStr("ins")]),
              JObj([path |-> JStr(f), append |-> JStr("!"), prepend |-> JStr(">")]),
              JObj([path |-> JStr(f), replace_all |-> JStr("all"), append |-> JStr("!")]),
              JObj([path |-> JStr(f)]) } : f \in EditPaths }
    \cup { JObj([path |-> JStr("d"), append |-> JStr("!")]),
           JObj([replace_all |-> JStr("all")]), JStr("a.txt") }

ModelListArgs ==
    { JObj(NoFiles), JObj([host |-> JStr("http://other:11434")]), JObj([host |-> JNum(1)]) }

NoExecution ==
    [tool |-> "none", args |-> JNull, keys |-> <<>>, env |-> EnvOk,
     before |-> [files |-> NoFiles, dirs |-> {}],
     out |-> Outcome(ToolResult_error(""), <<>>, [files |-> NoFiles, dirs |-> {}])]

Execution(tool, args, keys, env, before, out) ==
    [tool |-> tool, args |-> args, keys |-> keys, env |-> env, before |-> before, out |-> out]

(***************************************************************************)
(* ChatMessage (include/ollama_client.hpp)                                 *)
(***************************************************************************)
ChatMessage(role, content) ==
    [role |-> role, content |-> content, name |-> "", tool_calls |-> <<>>]

\* a tool response that carries no tool name
ChatMessage_make_tool_response_unnamed(content, name) ==
    [role |-> "tool", content |-> content, name |-> "", tool_calls |-> <<>>]

ChatMessage_make_tool_response(content, name) ==
    [role |-> "tool", content |-> content, name |-> name, tool_calls |-> <<>>]

\* the system prompt main starts with (abbreviated)
DefaultSystemPrompt == "You are a helpful assistant with access to various tools."

\* a vector that grows at its front
PushFront(conv, message) == <<message>> \o conv

\* conversation.push_back(message)
PushBack(conv, message) == Append(conv, message)

RECURSIVE Concat(_)
\* the text the streaming callback accumulates from the fragments
Concat(fragments) ==
    IF fragments = <<>> THEN "" ELSE Head(fragments) \o Concat(Tail(fragments))

(***************************************************************************)
(* OllamaClient: what a request returns, given the server's reply          *)
(***************************************************************************)
\* json::parse on the argument strings the model's replies carry
JsonTexts ==
    ("{\"expression\":\"2+2\"}" :> Expr("2+2")) @@ ("{\"command\":\"rm x\"}" :> Cmd("rm x"))
    @@ ("5" :> JNum(5))

JsonParse(text) ==
    IF text \in DOMAIN JsonTexts
    THEN [ok |-> TRUE, value |-> JsonTexts[text]]
    ELSE [ok |-> FALSE, value |-> JNull]

\* an entry whose arguments are taken as they come, never parsed
parse_tool_call_keeping_text(entry) ==
    [id |-> entry.id, name |-> entry.name, arguments |-> entry.arguments]

\* one entry of parse_tool_calls
parse_tool_call(entry) ==
    [id |-> entry.id,
     name |-> entry.name,
     arguments |-> IF entry.arguments.t = "string"
                   THEN IF JsonParse(entry.arguments.v).ok
                        THEN JsonParse(entry.arguments.v).value
                        ELSE entry.arguments
                   ELSE entry.arguments]

parse_tool_calls(entries) == [i \in DOMAIN entries |-> parse_tool_call(entries[i])]

\* a chat that hands the failure text back as the answer
OllamaClient_chat_reporting(reply) ==
    IF reply.curl_ok /\ reply.body = "message"
    THEN [role |-> "assistant", content |-> reply.content, name |-> "",
          tool_calls |-> parse_tool_calls(reply.tool_calls)]
    ELSE ChatMessage("assistant", "Error: request failed")

\* OllamaClient::Impl::chat without a stream callback; reply is the server's answer
\* (reply.body = "bad_types" makes get<std::string>() throw: see ResponseShapeError)
OllamaClient_chat(reply) ==
    IF reply.curl_ok /\ reply.body = "message"
    THEN [role |-> "assistant", content |-> reply.content, name |-> "",
          tool_calls |-> parse_tool_calls(reply.tool_calls)]
    ELSE ChatMessage("assistant", "")

\* OllamaClient::Impl::chat_stream: the fragments handed to the callback, in order
OllamaClient_chat_stream(reply) == reply.fragments

\* a model request as it leaves the client
Request(kind, messages, tools, reply) ==
    [kind |-> kind, messages |-> messages, tools |-> tools, reply |-> reply]

(***************************************************************************)
(* Initial states of the three parts                                       *)
(***************************************************************************)
OrchInit ==
    /\ running = TRUE
    /\ pc = "LoopCheck"
    /\ conversation = <<ChatMessage("system", DefaultSystemPrompt)>>
    /\ system_prompt = DefaultSystemPrompt
    /\ response = ChatMessage("assistant", "")
    /\ next_call = 1
    /\ full_content = ""
    /\ requests = <<>>
    /\ turn_start = 0
    /\ round_start = 0
    /\ visited = <<>>
    /\ turns = 0
    /\ registry = Registry(cfg)
    /\ round_log = <<>>

\* a terminal in canonical mode with echo, and no dialog open
Cooked == [icanon |-> TRUE, echo |-> TRUE]

TermIdle ==
    /\ tty = Cooked
    /\ tty_before = Cooked
    /\ old_tio = Cooked
    /\ active = FALSE
    /\ keypress = [n |-> 0, c |-> 0]
    /\ confirmed = FALSE
    /\ gate_pc = "idle"

\* no tool execution under way
NoPending == [n |-> 0, gates_left |-> 0]

CallIdle ==
    /\ at = "main"
    /\ in_flight = {}
    /\ pending = NoPending

\* a subprocess that prints one line and exits
ChildQuick == [prefix |-> <<"line">>, then |-> "exit"]

\* no subprocess has been started
ProcIdle ==
    /\ proc_tool = "none"
    /\ proc_pc = "returned"
    /\ proc_timeout = 0
    /\ clock = 0
    /\ child = [alive |-> FALSE, plan |-> ChildQuick, pos |-> 1, phase |-> 0]
    /\ pipe = [lines |-> 0, open |-> FALSE]
    /\ eof_flag = FALSE
    /\ out_len = 0
    /\ proc_result = "none"

\* a configuration file that is not there
NoFile == [exists |-> FALSE, valid |-> FALSE, json |-> [k \in {} |-> JNull]]

\* main has not been started from a command line
StartIdle ==
    /\ argv = <<>>
    /\ arg_i = 1
    /\ main_config = [k \in {} |-> JNull]
    /\ config_file_path = ""
    /\ use_config = TRUE
    /\ save_config = FALSE
    /\ list_models = FALSE
    /\ start_pc = "idle"
    /\ disk = [p \in {} |-> NoFile]

SideIdle == TermIdle /\ CallIdle /\ ProcIdle /\ StartIdle

StreamIdle ==
    /\ wire = ""
    /\ response_buffer = ""
    /\ emitted = <<>>
    /\ sent = ""
    /\ stream_pc = "idle"
    /\ cut_inside = FALSE

(***************************************************************************)
(* SpecTools: one execution of one tool, on every input                    *)
(***************************************************************************)
ToolsInit ==
    /\ cfg \in ToolConfigs
    /\ fs \in InitialFs
    /\ last = NoExecution
    /\ OrchInit
    /\ SideIdle
    /\ StreamIdle

\* record an execution of tool and its effect on the filesystem
Executed(tool, args, keys, env, out) ==
    /\ last' = Execution(tool, args, keys, env, fs, out)
    /\ fs' = out.fs
    /\ UNCHANGED <<cfg, orchVars, streamVars, sideVars>>

RunCalculator ==
    /\ last.tool = "none"
    /\ \E args \in CalcArgs, keys \in KeySeqs, env \in ProcEnvs :
          Executed(CalculatorName, args, keys, env,
                   CalculatorTool_execute(args, cfg, keys, env, fs))

RunShell ==
    /\ last.tool = "none"
    /\ \E args \in ShellArgs, keys \in KeySeqs, env \in ProcEnvs :
          Executed(ShellName, args, keys, env, ShellTool_execute(args, cfg, keys, env, fs))

RunBash ==
    /\ last.tool = "none"
    /\ \E args \in BashArgs, keys \in KeySeqs, env \in ProcEnvs :
          Executed(BashName, args, keys, env, BashTool_execute(args, cfg, keys, env, fs))

RunFileRead ==
    /\ last.tool = "none"
    /\ \E args \in FileReadArgs, keys \in KeySeqs, env \in FileEnvs :
          Executed(FileReadName, args, keys, env, FileReadTool_execute(args, cfg, keys, env, fs))

RunFileWrite ==
    /\ last.tool = "none"
    /\ \E args \in FileWriteArgs, keys \in KeySeqs, env \in FileEnvs :
          Executed(FileWriteName, args, keys, env,
                   FileWriteTool_execute(args, cfg, keys, env, fs))

RunFileEdit ==
    /\ last.tool = "none"
    /\ \E args \in FileEditArgs, keys \in KeySeqs, env \in FileEnvs :
          Executed(FileEditName, args, keys, env, FileEditTool_execute(args, cfg, keys, env, fs))

RunModelList ==
    /\ last.tool = "none"
    /\ \E args \in ModelListArgs, keys \in KeySeqs, env \in NetEnvs :
          Executed(ModelListName, args, keys, env,
                   ModelListTool_execute(args, cfg, keys, env, fs))

ToolsNext ==
    \/ RunCalculator
    \/ RunShell
    \/ RunBash
    \/ RunFileRead
    \/ RunFileWrite
    \/ RunFileEdit
    \/ RunModelList

SpecTools == ToolsInit /\ [][ToolsNext]_vars

(***************************************************************************)
(* Reading the trace of the last execution                                 *)
(***************************************************************************)
Positions(tr, kinds) == {i \in DOMAIN tr : tr[i].e \in kinds}
Gates(tr) == Cardinality(Positions(tr, {"gate"}))
SideEffectKinds == {"spawn", "mkdir", "write"}
NoSideEffects(tr) == Positions(tr, SideEffectKinds) = {}
\* every side effect of the trace comes after a Gate prompt
GateBeforeSideEffects(tr) ==
    \A i \in Positions(tr, SideEffectKinds) : \E j \in Positions(tr, {"gate"}) : j < i
\* the operator did not press Enter at one of the prompts shown
Denied(ex) == \E n \in 1..Gates(ex.out.trace) : ~confirm_dialog(KeyAt(ex.keys, n))

\* the execution had a valid command or expression that matches the tool's blocklist
BlocklistMatch(ex) ==
    \/ /\ ex.tool = ShellName
       /\ JIsString(ex.args, "command")
       /\ ~ShellTool_is_command_safe(JGet(ex.args, "command"))
    \/ /\ ex.tool = BashName
       /\ JIsString(ex.args, "command")
       /\ ~BashTool_is_command_safe(BashTool_command(ex.args))
    \/ /\ ex.tool = CalculatorName
       /\ JIsString(ex.args, "expression")
       /\ ~CalculatorTool_is_expression_safe(CalculatorTool_sanitize(JGet(ex.args, "expression")))

SafetyIgnored(ex, config) ==
    IF ex.tool = CalculatorName THEN config.calc_safety_ignored ELSE config.shell_safety_ignored

\* C6 as stated: on a blocklist match with safety not ignored the Gate is invoked
\* exactly once, before any side effect, and a denial gives an error and no side effect.
C6_GateExactlyOnce ==
    (BlocklistMatch(last) /\ ~SafetyIgnored(last, cfg)) =>
        /\ Gates(last.out.trace) = 1
        /\ GateBeforeSideEffects(last.out.trace)
        /\ Denied(last) =>
              /\ ~last.out.result.is_success
              /\ NoSideEffects(last.out.trace)
              /\ last.out.fs = last.before

\* C6 amended: on a blocklist match with safety not ignored the first thing the tool
\* does is invoke the Gate; Calculator invokes it exactly once; Shell and Bash invoke
\* it a second time (the general confirmation) exactly when auto-confirm-shell is
\* false and the blocklist prompt was confirmed; a denial at any prompt gives an
\* error result and no side effect (no subprocess, filesystem unchanged).
C6_GateFirstOnceOrTwice ==
    (BlocklistMatch(last) /\ ~SafetyIgnored(last, cfg)) =>
        /\ Gates(last.out.trace) >= 1
        /\ last.out.trace[1].e = "gate"
        /\ GateBeforeSideEffects(last.out.trace)
        /\ Gates(last.out.trace) =
              IF /\ last.tool # CalculatorName
                 /\ ~cfg.auto_confirm_shell
                 /\ confirm_dialog(KeyAt(last.keys, 1))
              THEN 2 ELSE 1
        /\ Denied(last) =>
              /\ ~last.out.result.is_success
              /\ NoSideEffects(last.out.trace)
              /\ last.out.fs = last.before

\* a blocklisted bash command went through both prompts and was spawned
C6_Witness ==
    /\ BlocklistMatch(last) /\ ~SafetyIgnored(last, cfg)
    /\ last.tool = BashName
    /\ Gates(last.out.trace) = 2
    /\ ~Denied(last)
    /\ Positions(last.out.trace, {"spawn"}) = {3}

\* C7: with auto-confirm set and no blocklist match the Gate is never invoked
\* (Shell/Bash under auto-confirm-shell, FileWrite/FileEdit under
\* auto-confirm-file-ops); Calculator with an expression that matches no blocked
\* pattern runs the evaluator without the Gate, and "2+2" answered "4" is success("4").
C7_NoGateWhenAutoConfirmed ==
    /\ ( /\ last.tool \in {ShellName, BashName}
         /\ JIsString(last.args, "command")
         /\ ~BlocklistMatch(last)
         /\ cfg.auto_confirm_shell )
       => Gates(last.out.trace) = 0
    /\ (last.tool \in {FileWriteName, FileEditName} /\ cfg.auto_confirm_file_ops)
       => Gates(last.out.trace) = 0
    /\ ( /\ last.tool = CalculatorName
         /\ JIsString(last.args, "expression")
         /\ ~BlocklistMatch(last) )
       => /\ Gates(last.out.trace) = 0
          /\ last.env.popen_ok => Positions(last.out.trace, {"spawn"}) = {1}
          /\ (last.args = Expr("2+2") /\ last.env = EnvOk)
                => last.out.result = ToolResult_success("4")

\* an auto-confirmed safe shell command ran its subprocess without any prompt
C7_Witness ==
    /\ last.tool = ShellName
    /\ last.args = Cmd("ls")
    /\ cfg.auto_confirm_shell
    /\ ~cfg.shell_safety_ignored
    /\ last.out.trace = <<Ev("spawn", "ls 2>&1")>>
    /\ last.out.result.is_success

\* C8: Shell and Bash with auto-confirm-shell false and a valid command always
\* invoke the Gate, before the subprocess is spawned; a denial gives an error
\* result and no subprocess.
C8_ShellAlwaysConfirms ==
    ( /\ last.tool \in {ShellName, BashName}
      /\ JIsString(last.args, "command")
      /\ ~cfg.auto_confirm_shell )
    => /\ Gates(last.out.trace) >= 1
       /\ last.out.trace[1].e = "gate"
       /\ \A i \in Positions(last.out.trace, {"spawn"}) :
             /\ \A j \in 1..(i - 1) : last.out.trace[j].e = "gate"
             /\ \A n \in 1..(i - 1) : confirm_dialog(KeyAt(last.keys, n))
             /\ i >= 2
       /\ Denied(last) =>
             /\ ~last.out.result.is_success
             /\ Positions(last.out.trace, {"spawn"}) = {}

\* a non-blocklisted command was spawned after the general confirmation, safety ignored
C8_Witness ==
    /\ last.tool = ShellName
    /\ last.args = Cmd("rm x")
    /\ ~cfg.auto_confirm_shell
    /\ cfg.shell_safety_ignored
    /\ last.out.trace = <<Ev("gate", "rm x"), Ev("spawn", "rm x 2>&1")>>

\* C9: FileWrite and FileEdit with auto-confirm-file-ops false invoke the Gate
\* before any filesystem mutation, and a denial gives an error and leaves the
\* filesystem as it was; with the flag true they never invoke the Gate.
C9_FileOpsConfirmBeforeMutation ==
    (last.tool \in {FileWriteName, FileEditName}) =>
        /\ ~cfg.auto_confirm_file_ops =>
              /\ \A i \in Positions(last.out.trace, {"mkdir", "write"}) :
                    \E j \in Positions(last.out.trace, {"gate"}) : j < i
              /\ last.out.fs # last.before => Gates(last.out.trace) = 1
              /\ Denied(last) =>
                    /\ ~last.out.result.is_success
                    /\ Positions(last.out.trace, {"mkdir", "write"}) = {}
                    /\ last.out.fs = last.before
        /\ cfg.auto_confirm_file_ops => Gates(last.out.trace) = 0

\* a confirmed write created the missing directories and the file
C9_Witness ==
    /\ last.tool = FileWriteName
    /\ last.args = WriteTo("e/f/g.txt", "deep")
    /\ ~cfg.auto_confirm_file_ops
    /\ last.out.result.is_success
    /\ last.before.dirs = {}
    /\ last.out.fs.dirs = {"e", "e/f"}
    /\ "e/f/g.txt" \in DOMAIN last.out.fs.files
    /\ Gates(last.out.trace) = 1

(***************************************************************************)
(* The REPL of main: inputs of the exploration                             *)
(***************************************************************************)
Session(te, se, fe, ac) ==
    [tools_enabled |-> te, shell_enabled |-> se, file_ops_enabled |-> fe,
     model_list_enabled |-> FALSE, debug_mode |-> FALSE,
     auto_confirm_shell |-> ac, auto_confirm_file_ops |-> ac,
     calc_safety_ignored |-> FALSE, shell_safety_ignored |-> FALSE,
     host |-> "http://localhost:11434"]

SessionConfigs ==
    { Session(FALSE, TRUE, TRUE, FALSE),    \* tools disabled
      Session(TRUE, FALSE, FALSE, FALSE),   \* only the calculator
      [Session(TRUE, TRUE, TRUE, FALSE) EXCEPT !.model_list_enabled = TRUE] }
                                            \* every tool, every prompt asked

SessionFs == [files |-> ("a.txt" :> "one\ntwo\nthree"), dirs |-> {}]

UserInputs == {"hi"}
InfoCommands == {"/tools", "/help", "/config", "/models", "/prompt", "/template"}
\* the lines typed after /setprompt, before /end or the end of input
NewPrompts == {<<>>, <<"">>, <<"Be brief.">>}

Call(id, name, arguments) == [id |-> id, name |-> name, arguments |-> arguments]

\* what the server answers to the non-streaming request
Message(content, tool_calls) ==
    [curl_ok |-> TRUE, body |-> "message", content |-> content, tool_calls |-> tool_calls]

ChatReplies ==
    { [curl_ok |-> FALSE, body |-> "", content |-> "", tool_calls |-> <<>>],
      [curl_ok |-> TRUE, body |-> "invalid_json", content |-> "", tool_calls |-> <<>>],
      [curl_ok |-> TRUE, body |-> "bad_types", content |-> "", tool_calls |-> <<>>],
      Message("Hi!", <<>>),
      Message("", <<Call("1", CalculatorName, JStr("{\"expression\":\"2+2\"}"))>>),
      Message("calling", <<Call("", ShellName, JStr("{\"command\":\"rm x\"}")),
                           Call("", "web_search", JObj([q |-> JStr("x")]))>>),
      Message("", <<Call("", "web_search", JStr("not json")),
                    Call("2", FileWriteName, WriteTo("a.txt", "new"))>>) }

\* what the server streams: the content fragments of its records, and whether
\* the records also carried tool calls (which the streaming client never reads)
Streamed(fragments, tool_calls) ==
    [curl_ok |-> TRUE, fragments |-> fragments, tool_calls |-> tool_calls]

\* curl_easy_perform fails before any record arrives
StreamFailed == [curl_ok |-> FALSE, fragments |-> <<>>, tool_calls |-> <<>>]

StreamReplies ==
    { StreamFailed,
      Streamed(<<"Hel", "lo">>, <<Call("9", CalculatorName, Expr("2+2"))>>) }

\* the operator's answers and the environment during a tool call of a session
SessionKeys == {<<KeyEnterCR, KeyEnterCR>>, <<KeyEsc, KeyEsc>>}
SessionEnvs == {EnvOk}

(***************************************************************************)
(* The REPL of main: actions                                               *)
(***************************************************************************)
\* the state of section 4.5 the program is in
StateOf(p) == IF p = "LoopCheck" THEN "AwaitingUserInput" ELSE p

\* move to state p, noting it in the turn's trail
Goto(p) ==
    /\ pc' = p
    /\ visited' = Append(visited, StateOf(p))

\* `continue` after a command that is not a user turn
Continue ==
    /\ pc' = "LoopCheck"
    /\ visited' = <<>>
    /\ UNCHANGED <<running, response, next_call, full_content, requests, turn_start,
                   round_start, turns, registry, round_log, toolVars, streamVars, sideVars>>

\* signal_handler(SIGINT)
Sigint ==
    /\ pc \notin {"Exited", "Aborted"}
    /\ running
    /\ running' = FALSE
    /\ UNCHANGED <<pc, conversation, system_prompt, response, next_call, full_content,
                   requests, turn_start, round_start, visited, turns, registry, round_log,
                   toolVars, streamVars, sideVars>>

\* while (running): the loop condition, then readline
LoopTop ==
    /\ pc = "LoopCheck"
    /\ pc' = IF running THEN "AwaitingUserInput" ELSE "Exited"
    /\ UNCHANGED <<running, conversation, system_prompt, response, next_call, full_content,
                   requests, turn_start, round_start, visited, turns, registry, round_log,
                   toolVars, streamVars, sideVars>>

\* readline returns NULL: end of input
InputEof ==
    /\ pc = "AwaitingUserInput"
    /\ running' = FALSE
    /\ pc' = "Exited"
    /\ UNCHANGED <<conversation, system_prompt, response, next_call, full_content,
                   requests, turn_start, round_start, visited, turns, registry, round_log,
                   toolVars, streamVars, sideVars>>

\* /exit or /quit
InputExit ==
    /\ pc = "AwaitingUserInput"
    /\ pc' = "Exited"
    /\ UNCHANGED <<running, conversation, system_prompt, response, next_call, full_content,
                   requests, turn_start, round_start, visited, turns, registry, round_log,
                   toolVars, streamVars, sideVars>>

\* /reset
InputReset ==
    /\ pc = "AwaitingUserInput"
    /\ conversation' = <<ChatMessage("system", system_prompt)>>
    /\ UNCHANGED system_prompt
    /\ Continue

\* what the server answers to GET /api/tags: model names, or a body that is no
\* JSON, or an entry whose name is not a string
TagsReplies == {"names", "invalid_json", "bad_types"}

\* a command that shows the transcript and empties it
InputInfo_clearing ==
    /\ pc = "AwaitingUserInput"
    /\ \E input \in InfoCommands :
          /\ conversation' = <<ChatMessage("system", system_prompt)>>
          /\ UNCHANGED system_prompt
    /\ Continue

\* /tools, /help, /config, /models, /prompt, /template: they print and continue;
\* /models asks the server with client.list_models(), where get<std::string>()
\* on a name that is no string throws json::type_error, which nothing catches
InputInfo ==
    /\ pc = "AwaitingUserInput"
    /\ \E input \in InfoCommands :
       \E tags \in (IF input = "/models" THEN TagsReplies ELSE {"names"}) :
          /\ UNCHANGED <<conversation, system_prompt>>
          /\ IF input = "/models" /\ tags = "bad_types"
             THEN /\ pc' = "Aborted"
                  /\ UNCHANGED <<running, visited, response, next_call, full_content, requests,
                                 turn_start, round_start, turns, registry, round_log,
                                 toolVars, streamVars, sideVars>>
             ELSE Continue

\* the empty line
InputEmpty ==
    /\ pc = "AwaitingUserInput"
    /\ UNCHANGED <<conversation, system_prompt>>
    /\ Continue

\* new_prompt += line + "\n" for every line typed
RECURSIVE JoinPromptLines(_)
JoinPromptLines(lines) ==
    IF lines = <<>> THEN "" ELSE Head(lines) \o "\n" \o JoinPromptLines(Tail(lines))

\* a system message put in front whatever the conversation holds
SetSystemMessage_inserting(conv, prompt) == <<ChatMessage("system", prompt)>> \o conv

\* the conversation with the content of its first system message replaced,
\* or with a system message put in front when it has none
SetSystemMessage(conv, prompt) ==
    IF \E i \in DOMAIN conv : conv[i].role = "system"
    THEN LET k == CHOOSE i \in DOMAIN conv :
                     /\ conv[i].role = "system"
                     /\ \A j \in 1..(i - 1) : conv[j].role # "system"
         IN  [conv EXCEPT ![k].content = prompt]
    ELSE <<ChatMessage("system", prompt)>> \o conv

\* /setprompt, then the lines up to /end
InputSetPrompt ==
    /\ pc = "AwaitingUserInput"
    /\ \E lines \in NewPrompts :
          LET new_prompt == JoinPromptLines(lines)
              \* if (new_prompt.back() == '\n') new_prompt.pop_back()
              trimmed == SubSeq(new_prompt, 1, Len(new_prompt) - 1)
          IN  IF new_prompt # ""
              THEN /\ system_prompt' = trimmed
                   /\ conversation' = SetSystemMessage(conversation, trimmed)
              ELSE UNCHANGED <<conversation, system_prompt>>
    /\ Continue

\* any other line: the user turn begins
InputUser ==
    /\ pc = "AwaitingUserInput"
    /\ turns < MaxTurns
    /\ \E input \in UserInputs :
          conversation' = PushBack(conversation, ChatMessage("user", input))
    /\ turns' = turns + 1
    /\ turn_start' = Len(conversation)
    /\ round_start' = 0
    /\ requests' = <<>>
    /\ round_log' = <<>>
    /\ full_content' = ""
    /\ response' = ChatMessage("assistant", "")
    /\ next_call' = 1
    /\ pc' = "ModelRespondingStreaming"
    /\ visited' = <<"AwaitingUserInput", "ModelRespondingStreaming">>
    /\ UNCHANGED <<running, system_prompt, registry, toolVars, streamVars, sideVars>>

\* the tool definitions sent with the requests of a turn
ToolDefinitions == IF cfg.tools_enabled THEN registry ELSE {}

\* an end of the loop body that stores only a response with text
EndTurn_unless_empty(message) ==
    /\ conversation' = IF message.content = "" THEN conversation ELSE PushBack(conversation, message)
    /\ response' = message
    /\ Goto("LoopCheck")

\* the end of the loop body: conversation.push_back(response)
EndTurn(message) ==
    /\ conversation' = PushBack(conversation, message)
    /\ response' = message
    /\ Goto("LoopCheck")

\* a first request whose streamed text is stored before the structured request
StreamResponse_storing ==
    /\ pc = "ModelRespondingStreaming"
    /\ requests = <<>>
    /\ \E reply \in StreamReplies :
          /\ requests' = Append(requests, Request("chat_stream", conversation, ToolDefinitions, reply))
          /\ full_content' = Concat(OllamaClient_chat_stream(reply))
          /\ IF cfg.tools_enabled
             THEN /\ conversation' = PushBack(conversation,
                         ChatMessage("assistant", Concat(OllamaClient_chat_stream(reply))))
                  /\ UNCHANGED <<pc, visited, response>>
             ELSE EndTurn(ChatMessage("assistant", Concat(OllamaClient_chat_stream(reply))))
    /\ UNCHANGED <<running, system_prompt, next_call, turn_start, round_start, turns,
                   registry, round_log, toolVars, streamVars, sideVars>>

\* client.chat_stream(model, conversation, callback, tool_definitions): the first
\* request of the turn; with tools disabled its text is the answer
StreamResponse ==
    /\ pc = "ModelRespondingStreaming"
    /\ requests = <<>>
    /\ \E reply \in StreamReplies :
          /\ requests' = Append(requests, Request("chat_stream", conversation, ToolDefinitions, reply))
          /\ full_content' = Concat(OllamaClient_chat_stream(reply))
          /\ IF cfg.tools_enabled
             THEN UNCHANGED <<pc, visited, conversation, response>>
             ELSE EndTurn(ChatMessage("assistant", Concat(OllamaClient_chat_stream(reply))))
    /\ UNCHANGED <<running, system_prompt, next_call, turn_start, round_start, turns,
                   registry, round_log, toolVars, streamVars, sideVars>>

\* the structured response kept as it came
UseStreamedContent_never(message, streamed) == message

\* if (response.tool_calls.empty()) response.content = full_content
UseStreamedContent(message, streamed) ==
    IF message.tool_calls = <<>> THEN [message EXCEPT !.content = streamed] ELSE message

\* a tool round whatever the response holds
HandlesToolCalls_always(message) == TRUE

\* if (using_tools && !response.tool_calls.empty())
HandlesToolCalls(message) == cfg.tools_enabled /\ message.tool_calls # <<>>

\* response = client.chat(model, conversation, tool_definitions), using_tools
StructuredResponse ==
    /\ pc = "ModelRespondingStreaming"
    /\ Len(requests) = 1
    /\ cfg.tools_enabled
    /\ \E reply \in ChatReplies :
          /\ reply.body # "bad_types"
          /\ requests' = Append(requests, Request("chat", conversation, ToolDefinitions, reply))
          /\ IF HandlesToolCalls(OllamaClient_chat(reply))
             THEN /\ response' = OllamaClient_chat(reply)
                  /\ Goto("HasToolCalls")
                  /\ UNCHANGED conversation
             ELSE EndTurn(UseStreamedContent(OllamaClient_chat(reply), full_content))
    /\ UNCHANGED <<running, system_prompt, next_call, full_content, turn_start, round_start,
                   turns, registry, round_log, toolVars, streamVars, sideVars>>

\* get<std::string>() on a value that is not a string throws json::type_error,
\* which nothing catches: the process terminates
ResponseShapeError ==
    /\ pc = "ModelRespondingStreaming"
    /\ Len(requests) = 1
    /\ cfg.tools_enabled
    /\ \E reply \in ChatReplies :
          /\ reply.curl_ok
          /\ reply.body = "bad_types"
          /\ requests' = Append(requests, Request("chat", conversation, ToolDefinitions, reply))
    /\ pc' = "Aborted"
    /\ UNCHANGED <<running, visited, conversation, system_prompt, response, next_call, full_content,
                   turn_start, round_start, turns, registry, round_log, toolVars, streamVars, sideVars>>

\* a tool round that first stores the response that asked for the tools
BeginToolRound_storing ==
    /\ pc = "HasToolCalls"
    /\ next_call' = 1
    /\ conversation' = PushBack(conversation, response)
    /\ round_start' = Len(conversation) + 1
    /\ Goto("ExecutingTools")
    /\ UNCHANGED <<running, system_prompt, response, full_content, requests,
                   turn_start, turns, registry, round_log, toolVars, streamVars, sideVars>>

\* if (using_tools && !response.tool_calls.empty()): the tool round begins
BeginToolRound ==
    /\ pc = "HasToolCalls"
    /\ next_call' = 1
    /\ round_start' = Len(conversation)
    /\ Goto("ExecutingTools")
    /\ UNCHANGED <<running, conversation, system_prompt, response, full_content, requests,
                   turn_start, turns, registry, round_log, toolVars, streamVars, sideVars>>

\* a tool call handled: what was asked, whether it was registered, what it returned
Handled(tool_call, found, result) == [tool_call |-> tool_call, found |-> found, result |-> result]

\* if (!tool_manager.has_tool(tool_call.name)) { print; continue; }
ToolNotFound ==
    /\ pc = "ExecutingTools"
    /\ next_call <= Len(response.tool_calls)
    /\ ~ToolManager_has_tool(registry, response.tool_calls[next_call].name)
    /\ round_log' = Append(round_log, Handled(response.tool_calls[next_call], FALSE, ToolResult_error("")))
    /\ next_call' = next_call + 1
    /\ UNCHANGED <<running, pc, conversation, system_prompt, response, full_content, requests,
                   turn_start, round_start, visited, turns, registry, toolVars, streamVars, sideVars>>

\* the content of the tool message for a result
ToolMessageContent(result) == IF result.is_success THEN result.content ELSE result.error_message

\* tool_manager.execute_tool(name, arguments), then
\* conversation.push_back(ChatMessage::make_tool_response(...))
ExecuteToolCall ==
    /\ pc = "ExecutingTools"
    /\ next_call <= Len(response.tool_calls)
    /\ ToolManager_has_tool(registry, response.tool_calls[next_call].name)
    /\ \E keys \in SessionKeys, env \in SessionEnvs :
          LET tool_call == response.tool_calls[next_call]
              out == ToolManager_execute_tool(registry, tool_call.name, tool_call.arguments,
                                              cfg, keys, env, fs)
          IN  /\ conversation' = PushBack(conversation,
                     ChatMessage_make_tool_response(ToolMessageContent(out.result), tool_call.name))
              /\ fs' = out.fs
              /\ round_log' = Append(round_log, Handled(tool_call, TRUE, out.result))
    /\ next_call' = next_call + 1
    /\ UNCHANGED <<running, pc, system_prompt, response, full_content, requests, turn_start,
                   round_start, visited, turns, registry, cfg, last, streamVars, sideVars>>

\* the for loop over response.tool_calls is over
EndToolRound ==
    /\ pc = "ExecutingTools"
    /\ next_call > Len(response.tool_calls)
    /\ Goto("ModelRespondingFinal")
    /\ UNCHANGED <<running, conversation, system_prompt, response, next_call, full_content,
                   requests, turn_start, round_start, turns, registry, round_log, toolVars,
                   streamVars, sideVars>>

\* a closing request that looks for tool calls again
FinalResponse_detecting ==
    /\ pc = "ModelRespondingFinal"
    /\ \E reply \in StreamReplies :
          /\ requests' = Append(requests, Request("chat_stream", conversation, ToolDefinitions, reply))
          /\ IF reply.tool_calls # <<>>
             THEN /\ response' = [ChatMessage("assistant", "") EXCEPT !.tool_calls = reply.tool_calls]
                  /\ Goto("HasToolCalls")
                  /\ UNCHANGED conversation
             ELSE EndTurn(ChatMessage("assistant", Concat(OllamaClient_chat_stream(reply))))
    /\ UNCHANGED <<running, system_prompt, next_call, full_content, turn_start, round_start,
                   turns, registry, round_log, toolVars, streamVars, sideVars>>

\* the closing request: client.chat_stream over the updated conversation, then
\* response = ChatMessage("assistant", final_content) and the push_back
FinalResponse ==
    /\ pc = "ModelRespondingFinal"
    /\ \E reply \in StreamReplies :
          /\ requests' = Append(requests, Request("chat_stream", conversation, ToolDefinitions, reply))
          /\ EndTurn(ChatMessage("assistant", Concat(OllamaClient_chat_stream(reply))))
    /\ UNCHANGED <<running, system_prompt, next_call, full_content, turn_start, round_start,
                   turns, registry, round_log, toolVars, streamVars, sideVars>>

Init ==
    /\ cfg \in SessionConfigs
    /\ fs = SessionFs
    /\ last = NoExecution
    /\ OrchInit
    /\ SideIdle
    /\ StreamIdle

Next ==
    \/ Sigint
    \/ LoopTop
    \/ InputEof
    \/ InputExit
    \/ InputReset
    \/ InputInfo
    \/ InputEmpty
    \/ InputSetPrompt
    \/ InputUser
    \/ StreamResponse
    \/ StructuredResponse
    \/ ResponseShapeError
    \/ BeginToolRound
    \/ ToolNotFound
    \/ ExecuteToolCall
    \/ EndToolRound
    \/ FinalResponse

Spec == Init /\ [][Next]_vars

(***************************************************************************)
(* Reading a turn                                                          *)
(***************************************************************************)
IsPrefix(a, b) == Len(a) <= Len(b) /\ SubSeq(b, 1, Len(a)) = a
Final(seq) == seq[Len(seq)]
Count(seq, role) == Cardinality({i \in DOMAIN seq : seq[i].role = role})

\* control is back at the top of the loop after a user turn
TurnEnded == visited # <<>> /\ Final(visited) = "AwaitingUserInput"
\* the tool round of the turn is over
ToolRoundDone == pc = "ModelRespondingFinal"
\* the turn that ended had a tool round
HadToolRound == \E i \in DOMAIN visited : visited[i] = "ExecutingTools"
\* the tool calls the structured response of the turn asked for
Requested == OllamaClient_chat(requests[2].reply).tool_calls
\* the transcript's gain during the tool round
RoundGain == SubSeq(conversation, round_start + 1, Len(conversation))
\* the transcript's gain during the turn, after the user message
TurnGain == SubSeq(conversation, turn_start + 2, Len(conversation))

PathWithoutTools == <<"AwaitingUserInput", "ModelRespondingStreaming", "AwaitingUserInput">>
PathWithTools ==
    <<"AwaitingUserInput", "ModelRespondingStreaming", "HasToolCalls", "ExecutingTools",
      "ModelRespondingFinal", "AwaitingUserInput">>
PathSteps(p) == {<<p[i], p[i + 1]>> : i \in 1..(Len(p) - 1)}
TurnStates ==
    {"ModelRespondingStreaming", "HasToolCalls", "ExecutingTools", "ModelRespondingFinal"}

\* C1: after the tool round of a turn whose structured response asked for n >= 1
\* tool calls, the transcript has gained exactly n tool messages, the i-th named
\* after the i-th request and carrying its result content or error message.
C1_OneToolMessagePerRequest ==
    ToolRoundDone =>
        /\ Len(RoundGain) = Len(Requested)
        /\ \A i \in DOMAIN RoundGain :
              /\ RoundGain[i].role = "tool"
              /\ RoundGain[i].name = Requested[i].name
              /\ RoundGain[i].content = ToolMessageContent(round_log[i].result)

\* C2: a turn with a tool round makes exactly one further model request, over the
\* transcript holding the new tool messages; its text is appended as the assistant
\* message, and only the tool calls of the structured response were handled: the
\* closing response starts no second round, whatever it contains.
C2_OneClosingRequest ==
    (TurnEnded /\ HadToolRound) =>
        /\ Len(requests) = 3
        /\ requests[3].kind = "chat_stream"
        /\ requests[3].messages = SubSeq(conversation, 1, Len(conversation) - 1)
        /\ \A i \in (round_start + 1)..Len(requests[3].messages) :
              requests[3].messages[i].role = "tool"
        /\ Final(conversation) =
              ChatMessage("assistant", Concat(OllamaClient_chat_stream(requests[3].reply)))
        /\ Cardinality({i \in DOMAIN visited : visited[i] = "ExecutingTools"}) = 1
        /\ [i \in DOMAIN round_log |-> round_log[i].tool_call] = Requested

\* C2 witness: a turn ended after a tool round that added a tool message, and the
\* closing response carried tool calls of its own.
C2_Witness ==
    /\ TurnEnded
    /\ HadToolRound
    /\ Len(requests) = 3
    /\ requests[3].reply.tool_calls # <<>>
    /\ Len(requests[3].messages) > round_start

\* C3: when control is back at the prompt after a user turn, the turn has added
\* exactly one assistant message, and it is the last entry of the transcript.
C3_TurnEndsWithOneAssistantMessage ==
    TurnEnded =>
        /\ conversation[turn_start + 1].role = "user"
        /\ Final(conversation).role = "assistant"
        /\ Count(TurnGain, "assistant") = 1

\* C3 witness: a turn with tools enabled ended although both of its model requests
\* failed (nothing streamed, no structured response).
C3_Witness ==
    /\ TurnEnded
    /\ Len(requests) = 2
    /\ requests[1].reply.fragments = <<>>
    /\ ~requests[2].reply.curl_ok
    /\ Final(conversation) = ChatMessage("assistant", "")

\* C4: the trail of a turn is always an initial part of one of the two paths; every
\* change of state is a step of one of the two paths (or leaves the loop); the turn
\* goes back to the prompt from ModelRespondingStreaming only without tool calls to
\* handle; HasToolCalls, ExecutingTools and ModelRespondingFinal are entered only
\* with tools enabled and a response that has tool calls.
C4_Step ==
    /\ (StateOf(pc') # StateOf(pc) /\ pc' \notin {"Exited", "Aborted"}) =>
          <<StateOf(pc), StateOf(pc')>> \in PathSteps(PathWithoutTools) \cup PathSteps(PathWithTools)
    /\ pc' \in {"HasToolCalls", "ExecutingTools", "ModelRespondingFinal"} =>
          cfg.tools_enabled /\ response'.tool_calls # <<>>
    /\ (pc = "ModelRespondingStreaming" /\ pc' = "LoopCheck") =>
          (~cfg.tools_enabled \/ response'.tool_calls = <<>>)

C4_TwoPaths ==
    /\ [](IsPrefix(visited, PathWithoutTools) \/ IsPrefix(visited, PathWithTools))
    /\ [][C4_Step]_vars

\* C4 witness: a turn has gone all the way round the path with tools.
C4_Witness == visited = PathWithTools /\ pc = "AwaitingUserInput"

\* C5: every step of a user turn leaves the transcript it found as a prefix of the
\* transcript it leaves.
C5_TurnStep == pc \in TurnStates \/ pc' \in TurnStates

C5_AppendOnly == [][C5_TurnStep => IsPrefix(conversation, conversation')]_vars

\* C5 witness: a second turn has ended, with tool messages in the transcript.
C5_Witness ==
    /\ turns = 2
    /\ TurnEnded
    /\ Count(conversation, "user") = 2
    /\ Count(conversation, "tool") >= 2

(***************************************************************************)
(* The streaming client: stream_callback under every split into reads      *)
(***************************************************************************)
\* the records of the exploration, as the server writes them
RecordHel == "{\"message\":{\"content\":\"Hel\"}}"
RecordLo == "{\"message\":{\"content\":\"lo\"},\"done\":true}"
RecordDone == "{\"done\":true}"
RecordNoContent == "{\"message\":{\"role\":\"assistant\"}}"
RecordNumber == "{\"message\":{\"content\":7}}"
RecordBroken == "{\"message\":"

\* json::parse on the lines of the exploration; any other text, a piece of a
\* record among them, is a parse error
LineTexts ==
    (RecordHel :> JObj([message |-> JObj([content |-> JStr("Hel")])]))
    @@ (RecordLo :> JObj([message |-> JObj([content |-> JStr("lo")]), done |-> JBool(TRUE)]))
    @@ (RecordDone :> JObj([done |-> JBool(TRUE)]))
    @@ (RecordNoContent :> JObj([message |-> JObj([role |-> JStr("assistant")])]))
    @@ (RecordNumber :> JObj([message |-> JObj([content |-> JNum(7)])]))

LineParse(line) ==
    IF line \in DOMAIN LineTexts
    THEN [ok |-> TRUE, value |-> LineTexts[line]]
    ELSE [ok |-> FALSE, value |-> JNull]

\* the body of the while loop for one line: what it hands to the callback, and
\* whether get<std::string>() threw
ProcessLine(line) ==
    IF line = "" \/ ~LineParse(line).ok
    THEN [emitted |-> <<>>, threw |-> FALSE]
    ELSE LET j == LineParse(line).value
         IN  IF JContains(j, "message") /\ JContains(j.v["message"], "content")
             THEN IF JIsString(j.v["message"], "content")
                  THEN [emitted |-> <<JGet(j.v["message"], "content")>>, threw |-> FALSE]
                  ELSE [emitted |-> <<>>, threw |-> TRUE]
             ELSE [emitted |-> <<>>, threw |-> FALSE]

\* response_buffer->substr(pos), pos counted from 0
SubstrFrom(s, pos) == SubSeq(s, pos + 1, Len(s))

\* the while loop of stream_callback from offset pos of the buffer
RECURSIVE ProcessLines(_, _, _)
ProcessLines(buffer, pos, out) ==
    IF ~Contains(SubstrFrom(buffer, pos), "\n")
    THEN [buffer |-> SubstrFrom(buffer, pos), emitted |-> out, threw |-> FALSE]
    ELSE LET line_end == pos + FindPos(SubstrFrom(buffer, pos), "\n") - 1
             line == SubSeq(buffer, pos + 1, line_end)
             step == ProcessLine(line)
         IN  IF step.threw
             THEN [buffer |-> buffer, emitted |-> out, threw |-> TRUE]
             ELSE ProcessLines(buffer, line_end + 1, out \o step.emitted)

\* a callback that handles the complete lines and throws the incomplete one away
stream_callback_dropping_tail(buffer, chunk) ==
    [ProcessLines(buffer \o chunk, 0, <<>>) EXCEPT !.buffer = ""]

\* a callback that leaves the lines it handled in the buffer
stream_callback_keeping(buffer, chunk) ==
    [ProcessLines(buffer \o chunk, 0, <<>>) EXCEPT !.buffer = buffer \o chunk]

\* a callback that parses what the read brought and keeps nothing of it
stream_callback_forgetting(buffer, chunk) ==
    [ProcessLines(chunk, 0, <<>>) EXCEPT !.buffer = ""]

\* stream_callback: append the read to the buffer, handle the complete lines,
\* keep the incomplete one
stream_callback(buffer, chunk) == ProcessLines(buffer \o chunk, 0, <<>>)

ServerOutputs ==
    { "",
      RecordHel \o "\n" \o RecordLo \o "\n",
      RecordHel \o "\n\n" \o RecordDone \o "\n" \o RecordNoContent \o "\n" \o RecordLo \o "\n",
      RecordHel \o "\n" \o RecordBroken \o "\n" \o RecordLo \o "\n",
      RecordHel \o "\n" \o RecordNumber \o "\n" \o RecordLo \o "\n",
      RecordHel \o "\n" \o RecordLo }

StreamInit ==
    /\ cfg = Session(FALSE, FALSE, FALSE, FALSE)
    /\ fs = SessionFs
    /\ last = NoExecution
    /\ OrchInit
    /\ SideIdle
    /\ wire \in ServerOutputs
    /\ response_buffer = ""
    /\ emitted = <<>>
    /\ sent = ""
    /\ stream_pc = "receiving"
    /\ cut_inside = FALSE

\* one network read of n bytes, handed to stream_callback
StreamRead ==
    /\ stream_pc = "receiving"
    /\ \E n \in 1..(Len(wire) - Len(sent)) :
          LET chunk == SubSeq(wire, Len(sent) + 1, Len(sent) + n)
              done == stream_callback(response_buffer, chunk)
          IN  /\ sent' = sent \o chunk
              /\ response_buffer' = done.buffer
              /\ emitted' = emitted \o done.emitted
              /\ stream_pc' = IF done.threw THEN "aborted" ELSE "receiving"
              /\ cut_inside' = (cut_inside \/ done.buffer # "")
    /\ UNCHANGED <<wire, toolVars, orchVars, sideVars>>

\* variant: at the end of the stream what is left in the buffer is handled as a line
StreamEnd_flushing ==
    /\ stream_pc = "receiving"
    /\ sent = wire
    /\ stream_pc' = "done"
    /\ emitted' = emitted \o ProcessLine(response_buffer).emitted
    /\ response_buffer' = ""
    /\ UNCHANGED <<wire, sent, cut_inside, toolVars, orchVars, sideVars>>

\* curl_easy_perform returns: the stream is over, the buffer goes out of scope
StreamEnd ==
    /\ stream_pc = "receiving"
    /\ sent = wire
    /\ stream_pc' = "done"
    /\ UNCHANGED <<wire, response_buffer, emitted, sent, cut_inside, toolVars, orchVars, sideVars>>

StreamNext == StreamRead \/ StreamEnd

SpecStream == StreamInit /\ [][StreamNext]_vars

\* the text of a server output taken whole: the content of its records, a record
\* being a line ended by a newline
RECURSIVE SingleShotText(_)
SingleShotText(text) ==
    IF ~Contains(text, "\n")
    THEN ""
    ELSE LET n == FindPos(text, "\n")
             line == SubSeq(text, 1, n - 1)
         IN  (IF line \in DOMAIN LineTexts
                 /\ JContains(LineTexts[line], "message")
                 /\ JIsString(LineTexts[line].v["message"], "content")
              THEN LineTexts[line].v["message"].v["content"].v
              ELSE "")
             \o SingleShotText(SubSeq(text, n + 1, Len(text)))

\* C10: however the server output is cut into reads, the fragments emitted so far
\* concatenate to the text of the records received so far, and at the end of the
\* stream to the text of the whole output.
C10_SplitIndependent ==
    /\ stream_pc \in {"receiving", "done"} => Concat(emitted) = SingleShotText(sent)
    /\ stream_pc = "done" => Concat(emitted) = SingleShotText(wire)

\* C10 witness: a stream of several records ended after a read that stopped in the
\* middle of a record, and text was emitted.
C10_Witness ==
    /\ stream_pc = "done"
    /\ cut_inside
    /\ Len(emitted) = 2
    /\ Concat(emitted) = "Hello"
    /\ wire = RecordHel \o "\n" \o RecordBroken \o "\n" \o RecordLo \o "\n"

(***************************************************************************)
(* Reading a stream line by line                                           *)
(***************************************************************************)
\* the complete lines of text, in order: those ended by a newline
RECURSIVE LinesOf(_)
LinesOf(text) ==
    IF ~Contains(text, "\n")
    THEN <<>>
    ELSE <<SubSeq(text, 1, FindPos(text, "\n") - 1)>>
         \o LinesOf(SubSeq(text, FindPos(text, "\n") + 1, Len(text)))

\* the line is a record with a message whose content is a string
CarriesText(line) ==
    /\ line \in DOMAIN LineTexts
    /\ JContains(LineTexts[line], "message")
    /\ JIsString(LineTexts[line].v["message"], "content")

\* the line is a record with a message whose content is no string
CarriesOtherContent(line) ==
    /\ line \in DOMAIN LineTexts
    /\ JContains(LineTexts[line], "message")
    /\ JContains(LineTexts[line].v["message"], "content")
    /\ ~JIsString(LineTexts[line].v["message"], "content")

TextOf(line) == LineTexts[line].v["message"].v["content"].v

RECURSIVE SelectText(_)
SelectText(lines) ==
    IF lines = <<>> THEN <<>>
    ELSE (IF CarriesText(Head(lines)) THEN <<TextOf(Head(lines))>> ELSE <<>>)
         \o SelectText(Tail(lines))

\* the lines before the first one whose content is no string
RECURSIVE BeforeOtherContent(_)
BeforeOtherContent(lines) ==
    IF lines = <<>> \/ CarriesOtherContent(Head(lines)) THEN <<>>
    ELSE <<Head(lines)>> \o BeforeOtherContent(Tail(lines))

\* C11: the callback has been invoked exactly once for each complete line received
\* that carries a text content, in the order of the lines: the fragments emitted
\* are, one for one and in order, the contents of those lines (up to the line, if
\* any, at which the stream was aborted).
C11_OneCallPerRecordInOrder ==
    /\ emitted = SelectText(BeforeOtherContent(LinesOf(sent)))
    /\ stream_pc \in {"receiving", "done"} => emitted = SelectText(LinesOf(sent))

\* C11 witness: a stream with text records, empty lines and records without text
\* ended after a read stopped inside a line; both fragments were emitted, in order.
C11_Witness ==
    /\ stream_pc = "done"
    /\ cut_inside
    /\ emitted = <<"Hel", "lo">>
    /\ Len(LinesOf(wire)) = 5

\* C12: no line aborts the stream, and when the stream is over every record with a
\* text content has been emitted, in order, whatever other lines came between.
C12_MalformedLineSkipped ==
    /\ stream_pc # "aborted"
    /\ stream_pc = "done" => emitted = SelectText(LinesOf(wire))

(***************************************************************************)
(* SpecParse: one non-streaming request, on every reply                    *)
(***************************************************************************)
\* the arguments fields a tool-call entry can carry
ParseArguments ==
    { JStr("{\"expression\":\"2+2\"}"), JStr("{\"command\":\"rm x\"}"), JStr("5"),
      JStr("not json"), JStr(""),
      Cmd("ls"), JNum(3), JNull }

ParseEntries ==
    {Call("c1", CalculatorName, a) : a \in ParseArguments}
    \cup {Call("", "web_search", JStr("{\"command\":\"rm x\"}")), Call("", "", JStr("{"))}

ParseReplies ==
    {r \in ChatReplies : r.body # "message"}
    \cup {Message("", <<e>>) : e \in ParseEntries}
    \cup {Message("text", <<e1, e2>>) : e1 \in ParseEntries, e2 \in ParseEntries}

ParseInit ==
    /\ cfg = Session(TRUE, TRUE, TRUE, FALSE)
    /\ fs = SessionFs
    /\ last = NoExecution
    /\ running = TRUE
    /\ pc = "Requesting"
    /\ conversation = <<ChatMessage("system", DefaultSystemPrompt), ChatMessage("user", "hi")>>
    /\ system_prompt = DefaultSystemPrompt
    /\ response = ChatMessage("assistant", "")
    /\ next_call = 1
    /\ full_content = ""
    /\ \E reply \in ParseReplies :
          requests = <<Request("chat", conversation, Registry(cfg), reply)>>
    /\ turn_start = 0
    /\ round_start = 0
    /\ visited = <<>>
    /\ turns = 0
    /\ registry = Registry(cfg)
    /\ round_log = <<>>
    /\ StreamIdle
    /\ SideIdle

\* client.chat(model, conversation, tool_definitions) returns
ChatReturns ==
    /\ pc = "Requesting"
    /\ requests[1].reply.body # "bad_types"
    /\ response' = OllamaClient_chat(requests[1].reply)
    /\ pc' = "Returned"
    /\ UNCHANGED <<running, conversation, system_prompt, next_call, full_content, requests,
                   turn_start, round_start, visited, turns, registry, round_log, toolVars,
                   streamVars, sideVars>>

\* client.chat throws json::type_error
ChatThrows ==
    /\ pc = "Requesting"
    /\ requests[1].reply.body = "bad_types"
    /\ pc' = "Aborted"
    /\ UNCHANGED <<running, conversation, system_prompt, response, next_call, full_content,
                   requests, turn_start, round_start, visited, turns, registry, round_log,
                   toolVars, streamVars, sideVars>>

ParseNext == ChatReturns \/ ChatThrows

SpecParse == ParseInit /\ [][ParseNext]_vars

\* what an arguments field must become
NormalizedArguments(a) ==
    IF a.t = "string" /\ a.v \in DOMAIN JsonTexts THEN JsonTexts[a.v] ELSE a

\* C13: the message returned for a reply with tool calls has one tool call per
\* entry, in order, with the entry's id and name; its arguments are the parsed value
\* when the field is a string of valid JSON, the string itself when it does not
\* parse, and the field unchanged when it is no string.
C13_ArgumentsNormalized ==
    (pc = "Returned" /\ requests[1].reply.body = "message") =>
        /\ Len(response.tool_calls) = Len(requests[1].reply.tool_calls)
        /\ \A i \in DOMAIN response.tool_calls :
              LET entry == requests[1].reply.tool_calls[i]
                  call == response.tool_calls[i]
              IN  /\ call.id = entry.id
                  /\ call.name = entry.name
                  /\ call.arguments = NormalizedArguments(entry.arguments)
                  /\ entry.arguments = JStr("{\"expression\":\"2+2\"}") =>
                        call.arguments = JObj([expression |-> JStr("2+2")])
                  /\ entry.arguments = JStr("5") => call.arguments = JNum(5)
                  /\ entry.arguments = JStr("not json") => call.arguments = JStr("not json")

\* C13 witness: a returned message with two tool calls, the first with arguments
\* parsed from a string, the second with a string that did not parse.
C13_Witness ==
    /\ pc = "Returned"
    /\ Len(response.tool_calls) = 2
    /\ requests[1].reply.tool_calls[1].arguments = JStr("{\"command\":\"rm x\"}")
    /\ response.tool_calls[1].arguments = Cmd("rm x")
    /\ response.tool_calls[2].arguments = JStr("not json")

\* C14: a step that issues a model request whose transport fails never ends the
\* process; a failed chat returns the empty assistant message without tool calls,
\* and the turn ends at once with the streamed text as the assistant message; a
\* failed stream emits nothing, and the turn goes on to its next request or ends
\* with an empty assistant message.
C14_Step ==
    (Len(requests') = Len(requests) + 1 /\ ~requests'[Len(requests')].reply.curl_ok) =>
        LET new == requests'[Len(requests')]
        IN  /\ pc' # "Aborted"
            /\ new.kind = "chat" =>
                  /\ OllamaClient_chat(new.reply) = ChatMessage("assistant", "")
                  /\ pc' = "LoopCheck"
                  /\ conversation' = Append(conversation, ChatMessage("assistant", full_content))
            /\ new.kind = "chat_stream" =>
                  /\ OllamaClient_chat_stream(new.reply) = <<>>
                  /\ \/ /\ pc' = "LoopCheck"
                        /\ conversation' = Append(conversation, ChatMessage("assistant", ""))
                     \/ /\ pc' = "ModelRespondingStreaming"
                        /\ cfg.tools_enabled
                        /\ full_content' = ""
                        /\ conversation' = conversation

C15_UnknownToolContained ==
    /\ registry = Registry(cfg)
    /\ \A i \in DOMAIN round_log :
          LET call == round_log[i].tool_call
          IN  /\ round_log[i].found = (call.name \in registry)
              /\ ~round_log[i].found =>
                    \A keys \in SessionKeys, env \in SessionEnvs :
                       ToolManager_execute_tool(registry, call.name, call.arguments,
                                                cfg, keys, env, fs)
                       = [result |-> [is_success |-> FALSE, content |-> "",
                                      error_message |-> "Tool not found: " \o call.name],
                          trace |-> <<>>, fs |-> fs]
    /\ ToolRoundDone => Len(round_log) = Len(response.tool_calls)
    /\ (TurnEnded /\ HadToolRound) =>
          /\ Len(round_log) = Len(Requested)
          /\ Len(requests) = 3
          /\ Count(TurnGain, "tool") = Cardinality({i \in DOMAIN round_log : round_log[i].found})

\* C15 witness: a turn is over in which the first tool call named an unknown tool
\* and the second was executed; the closing request was made.
C15_Witness ==
    /\ TurnEnded
    /\ Len(round_log) = 2
    /\ ~round_log[1].found
    /\ round_log[2].found
    /\ Len(requests) = 3
    /\ Count(TurnGain, "tool") = 1

\* the flags a configuration can hold
AllFlags ==
    [tools_enabled : BOOLEAN, shell_enabled : BOOLEAN, file_ops_enabled : BOOLEAN,
     model_list_enabled : BOOLEAN]

\* the tools a configuration asks for
ToolsFor(config) ==
    {n \in {CalculatorName, ShellName, BashName, ModelListName, FileReadName, FileWriteName,
            FileEditName} :
        /\ config.tools_enabled
        /\ n \in {ShellName, BashName} => config.shell_enabled
        /\ n = ModelListName => config.model_list_enabled
        /\ n \in {FileReadName, FileWriteName, FileEditName} => config.file_ops_enabled}

\* C16: the registry is the set of tools the configuration flags ask for, for every
\* combination of the flags, and no step of the REPL changes it.
C16_Step == registry' = registry

C16_RegistryFixed ==
    /\ [](/\ registry = ToolsFor(cfg)
          /\ \A config \in AllFlags : Registry(config) = ToolsFor(config))
    /\ [][C16_Step]_vars

\* C16 witness: after a turn with a tool round and a /reset, a session with only
\* the calculator still has only the calculator.
C16_Witness ==
    /\ registry = {CalculatorName}
    /\ cfg.tools_enabled
    /\ turns = 2
    /\ Len(conversation) = 1
    /\ round_log # <<>>

\* "required" of each tool's get_parameters()
RequiredArguments(tool) ==
    CASE tool = CalculatorName -> {"expression"}
      [] tool = ShellName      -> {"command"}
      [] tool = BashName       -> {"command"}
      [] tool = FileReadName   -> {"path"}
      [] tool = FileWriteName  -> {"path", "content"}
      [] tool = FileEditName   -> {"path"}
      [] OTHER                 -> {}

\* a required argument of the execution is missing or is not a string (all required
\* arguments are strings); a payload that is itself a string has none of them
InvalidRequired(ex) == \E key \in RequiredArguments(ex.tool) : ~JIsString(ex.args, key)

\* C17: a tool executed with a required argument missing or of the wrong type
\* (a raw string payload included) returns an error and has done nothing: no Gate
\* prompt, no subprocess, no directory made, no file read or written, no connection.
C17_InvalidArgumentsNoWork ==
    (last.tool # "none" /\ InvalidRequired(last)) =>
        /\ ~last.out.result.is_success
        /\ last.out.result.error_message # ""
        /\ last.out.trace = <<>>
        /\ last.out.fs = last.before

\* C17 witness: FileEdit was given the raw string "a.txt" as its whole payload while
\* a.txt exists, and answered that 'path' is missing.
C17_Witness ==
    /\ last.tool = FileEditName
    /\ last.args = JStr("a.txt")
    /\ "a.txt" \in DOMAIN last.before.files
    /\ last.out.result.error_message = "Missing or invalid 'path' parameter"
    /\ last.out.trace = <<>>

\* the execution was a FileEdit find/replace on an existing regular file whose
\* content does not contain old_text
TextNotFound(ex) ==
    /\ ex.tool = FileEditName
    /\ JIsString(ex.args, "path")
    /\ FileEditTool_operation(ex.args) = "REPLACE_TEXT"
    /\ JGet(ex.args, "path") \in DOMAIN ex.before.files
    /\ ~Contains(ex.before.files[JGet(ex.args, "path")], JGet(ex.args, "old_text"))

\* C18: a FileEdit find/replace whose old_text is not in the file returns an error
\* and leaves the filesystem as it was, whatever the configuration and whatever the
\* operator answers at the Gate; when the edit is reached (path accepted, file
\* opened, prompt confirmed or not asked) the error is that the text could not be
\* found.
C18_TextNotFoundUnmodified ==
    TextNotFound(last) =>
        /\ ~last.out.result.is_success
        /\ last.out.result.error_message # ""
        /\ last.out.fs = last.before
        /\ Positions(last.out.trace, {"write", "mkdir", "spawn"}) = {}
        /\ (last.env.open_ok /\ ~Denied(last) /\ ~Contains(JGet(last.args, "path"), "..")) =>
              last.out.result.error_message = "Could not find the text to replace in the file"

\* C18 witness: the operator confirmed the edit of a.txt, whose content has no "zzz".
C18_Witness ==
    /\ TextNotFound(last)
    /\ JGet(last.args, "path") = "a.txt"
    /\ ~cfg.auto_confirm_file_ops
    /\ Gates(last.out.trace) = 1
    /\ ~Denied(last)
    /\ last.out.result.error_message = "Could not find the text to replace in the file"
    /\ last.out.fs.files["a.txt"] = "one\ntwo\nthree"

\* the execution was a FileEdit insert-at-line that wrote the file
InsertedLine(ex) ==
    /\ ex.tool = FileEditName
    /\ JIsString(ex.args, "path")
    /\ FileEditTool_operation(ex.args) = "INSERT_LINE"
    /\ ex.out.result.is_success

ContentBefore(ex) == ex.before.files[JGet(ex.args, "path")]
ContentAfter(ex) == ex.out.fs.files[JGet(ex.args, "path")]

EditOrder == <<"REPLACE_ALL", "REPLACE_TEXT", "APPEND", "PREPEND", "INSERT_LINE">>

\* the argument set of an operation is present, with the types it needs
ArgumentSetPresent(args, operation) ==
    CASE operation = "REPLACE_ALL"  -> JIsString(args, "replace_all")
      [] operation = "REPLACE_TEXT" -> JIsString(args, "old_text") /\ JIsString(args, "new_text")
      [] operation = "APPEND"       -> JIsString(args, "append")
      [] operation = "PREPEND"      -> JIsString(args, "prepend")
      [] operation = "INSERT_LINE"  -> JIsNumber(args, "insert_at_line") /\ JIsString(args, "text")

PresentOperations(args) == {i \in DOMAIN EditOrder : ArgumentSetPresent(args, EditOrder[i])}

\* the first operation, in the order, whose argument set is present
FirstPresent(args) ==
    LET present == PresentOperations(args)
    IN  IF present = {} THEN "UNKNOWN"
        ELSE EditOrder[CHOOSE i \in present : \A j \in present : i <= j]

\* the execution was a FileEdit with a path
EditCall(ex) == ex.tool = FileEditName /\ JIsString(ex.args, "path")

\* C20: a FileEdit call that succeeds has applied to the file exactly the first
\* operation, in the order replace_all, old_text+new_text, append, prepend,
\* insert_at_line+text, whose argument set is present, and nothing else; a call that
\* fails has applied nothing; a call with no valid argument set fails without a
\* Gate prompt and leaves the file unchanged.
C20_OneOperationApplied ==
    EditCall(last) =>
        /\ last.out.result.is_success =>
              /\ FirstPresent(last.args) # "UNKNOWN"
              /\ ContentAfter(last) =
                    FileEditTool_apply(last.args, FirstPresent(last.args),
                                       ContentBefore(last)).content
              /\ \A p \in DOMAIN last.before.files \ {JGet(last.args, "path")} :
                    last.out.fs.files[p] = last.before.files[p]
        /\ ~last.out.result.is_success => last.out.fs = last.before
        /\ PresentOperations(last.args) = {} =>
              /\ ~last.out.result.is_success
              /\ last.out.result.error_message # ""
              /\ Gates(last.out.trace) = 0
              /\ last.out.fs = last.before

\* C20 witness: with append and prepend both given, a.txt got the appended text only.
C20_Witness ==
    /\ EditCall(last)
    /\ Cardinality(PresentOperations(last.args)) = 2
    /\ FirstPresent(last.args) = "APPEND"
    /\ last.out.result.is_success
    /\ ContentBefore(last) = "one\ntwo\nthree"
    /\ ContentAfter(last) = "one\ntwo\nthree!"

\* the execution was a file tool given a path that contains ".."
TraversalPath(ex) ==
    /\ ex.tool \in {FileReadName, FileWriteName, FileEditName}
    /\ JIsString(ex.args, "path")
    /\ Contains(JGet(ex.args, "path"), "..")

\* C21: FileRead, FileWrite and FileEdit given a path that contains ".." return an
\* error and have done nothing: no Gate prompt, no file read, no directory made, no
\* file written, the filesystem as it was; when the other required arguments are
\* there the error names the forbidden sequence.
C21_TraversalRejected ==
    TraversalPath(last) =>
        /\ ~last.out.result.is_success
        /\ last.out.trace = <<>>
        /\ last.out.fs = last.before
        /\ ~InvalidRequired(last) =>
              last.out.result.error_message = "Path contains forbidden '..' sequence"

\* C21 witness: FileEdit was asked to append to ../a.txt, a file that exists, with
\* file operations auto-confirmed, and refused.
C21_Witness ==
    /\ TraversalPath(last)
    /\ last.tool = FileEditName
    /\ JGet(last.args, "path") \in DOMAIN last.before.files
    /\ cfg.auto_confirm_file_ops
    /\ last.out.result.error_message = "Path contains forbidden '..' sequence"
    /\ last.out.fs = last.before

(***************************************************************************)
(* SpecGate: one confirm_dialog at the terminal (src/src/terminal)         *)
(***************************************************************************)
\* TerminalRawMode::active before the constructor body runs
TerminalRawMode_active_default == FALSE

\* new_tio.c_lflag &= ~(ICANON | ECHO)
RawOf(tio) == [tio EXCEPT !.icanon = FALSE, !.echo = FALSE]

\* the line disciplines the terminal can be in when the dialog opens
TerminalModes == {Cooked, [icanon |-> TRUE, echo |-> FALSE]}

\* what one read of one byte can give: a byte, end of input, or an error
ReadOutcomes ==
    {[n |-> 1, c |-> k] : k \in {KeyEnterCR, KeyEnterLF, KeyEsc, KeyNone, 32, 110, 121}}
    \cup {[n |-> 0, c |-> 0], [n |-> -1, c |-> 0]}

GateInit ==
    /\ cfg = Session(TRUE, TRUE, TRUE, FALSE)
    /\ fs = SessionFs
    /\ last = NoExecution
    /\ OrchInit
    /\ StreamIdle
    /\ CallIdle
    /\ ProcIdle
    /\ StartIdle
    /\ tty \in TerminalModes
    /\ tty_before = tty
    /\ old_tio = Cooked
    /\ active = TerminalRawMode_active_default
    /\ keypress = [n |-> 0, c |-> 0]
    /\ confirmed = FALSE
    /\ gate_pc = "idle"

\* confirm_dialog prints the dialog and the prompt
ShowDialog ==
    /\ gate_pc = "idle"
    /\ gate_pc' = "prompted"
    /\ UNCHANGED <<tty, tty_before, old_tio, active, keypress, confirmed, notTermVars>>

\* TerminalRawMode::TerminalRawMode(), entered from get_keypress
TerminalRawMode_enter ==
    /\ gate_pc = "prompted"
    /\ \E tcgetattr_ok \in BOOLEAN, tcsetattr_ok \in BOOLEAN :
          /\ old_tio' = IF tcgetattr_ok THEN tty ELSE old_tio
          /\ tty' = IF tcgetattr_ok /\ tcsetattr_ok THEN RawOf(tty) ELSE tty
          /\ active' = (tcgetattr_ok /\ tcsetattr_ok)
    /\ gate_pc' = "reading"
    /\ UNCHANGED <<tty_before, keypress, confirmed, notTermVars>>

\* read(STDIN_FILENO, &c, 1)
ReadKey ==
    /\ gate_pc = "reading"
    /\ \E r \in ReadOutcomes : keypress' = r
    /\ gate_pc' = "leaving"
    /\ UNCHANGED <<tty, tty_before, old_tio, active, confirmed, notTermVars>>

\* a destructor that puts the terminal back only when a byte was read
TerminalRawMode_leave_on_key ==
    /\ gate_pc = "leaving"
    /\ tty' = IF active /\ keypress.n > 0 THEN old_tio ELSE tty
    /\ gate_pc' = "got_key"
    /\ UNCHANGED <<tty_before, old_tio, active, keypress, confirmed, notTermVars>>

\* TerminalRawMode::~TerminalRawMode(), run on both returns of get_keypress
TerminalRawMode_leave ==
    /\ gate_pc = "leaving"
    /\ tty' = IF active THEN old_tio ELSE tty
    /\ gate_pc' = "got_key"
    /\ UNCHANGED <<tty_before, old_tio, active, keypress, confirmed, notTermVars>>

\* the char get_keypress returns
get_keypress == IF keypress.n <= 0 THEN 0 ELSE keypress.c

\* confirm_dialog: confirmed = (c == 13 || c == 10), printed and returned
ConfirmReturns ==
    /\ gate_pc = "got_key"
    /\ confirmed' = confirm_dialog(get_keypress)
    /\ gate_pc' = "returned"
    /\ UNCHANGED <<tty, tty_before, old_tio, active, keypress, notTermVars>>

GateNext ==
    \/ ShowDialog
    \/ TerminalRawMode_enter
    \/ ReadKey
    \/ TerminalRawMode_leave
    \/ ConfirmReturns

SpecGate == GateInit /\ [][GateNext]_vars

\* C22: confirm_dialog returns true exactly when the read gave one byte and the
\* byte is Enter (carriage return or line feed), false for every other key and for
\* a read that failed or met the end of input; the terminal is out of canonical
\* mode only between the constructor and the destructor of TerminalRawMode, and
\* when get_keypress has returned, and so when confirm_dialog returns, the line
\* discipline is the one the dialog found, whether raw mode was acquired or not.
C22_EnterOnlyAndRestored ==
    /\ gate_pc = "returned" =>
          confirmed = (keypress.n = 1 /\ keypress.c \in {KeyEnterCR, KeyEnterLF})
    /\ gate_pc \in {"got_key", "returned"} => tty = tty_before
    /\ tty # tty_before => (active /\ gate_pc \in {"reading", "leaving"})
    /\ (active /\ gate_pc \in {"reading", "leaving"}) => tty = RawOf(tty_before)

\* C22 witness: raw mode was acquired on a terminal without echo, the read failed,
\* and confirm_dialog has returned false with the terminal as it found it.
C22_Witness ==
    /\ gate_pc = "returned"
    /\ active
    /\ keypress.n = -1
    /\ ~confirmed
    /\ tty_before = [icanon |-> TRUE, echo |-> FALSE]
    /\ tty = tty_before

(***************************************************************************)
(* SpecTurn: one user turn of main, call by call. Every blocking call of   *)
(* the loop body (chat_stream, chat, execute_tool and, inside it,          *)
(* confirm_dialog) is a step that enters it and a step that returns.       *)
(***************************************************************************)
Activity(kind, n) == [kind |-> kind, n |-> n]

TurnConfigs ==
    { Session(FALSE, TRUE, TRUE, FALSE), Session(TRUE, TRUE, TRUE, FALSE),
      Session(TRUE, TRUE, TRUE, TRUE) }

TurnReplies ==
    { [curl_ok |-> FALSE, body |-> "", content |-> "", tool_calls |-> <<>>],
      Message("Hi!", <<>>),
      Message("", <<Call("1", CalculatorName, Expr("2+2")),
                    Call("2", FileWriteName, WriteTo("a.txt", "new"))>>),
      Message("calling", <<Call("", ShellName, Cmd("rm x")),
                           Call("", "web_search", JObj([q |-> JStr("x")])),
                           Call("", CalculatorName, Expr("system(1)"))>>) }

\* the user's line has been pushed; the loop body is about to ask the model
TurnInit ==
    /\ cfg \in TurnConfigs
    /\ fs = SessionFs
    /\ last = NoExecution
    /\ running = TRUE
    /\ pc = "ModelRespondingStreaming"
    /\ conversation = <<ChatMessage("system", DefaultSystemPrompt), ChatMessage("user", "hi")>>
    /\ system_prompt = DefaultSystemPrompt
    /\ response = ChatMessage("assistant", "")
    /\ next_call = 1
    /\ full_content = ""
    /\ requests = <<>>
    /\ turn_start = 1
    /\ round_start = 0
    /\ visited = <<>>
    /\ turns = 1
    /\ registry = Registry(cfg)
    /\ round_log = <<>>
    /\ StreamIdle
    /\ SideIdle

\* client.chat_stream(...) is entered: the first request of the turn
chat_stream_enter ==
    /\ at = "main"
    /\ pc = "ModelRespondingStreaming"
    /\ requests = <<>>
    /\ \E reply \in StreamReplies :
          requests' = Append(requests, Request("chat_stream", conversation, ToolDefinitions, reply))
    /\ in_flight' = in_flight \cup {Activity("request", 1)}
    /\ at' = "chat_stream"
    /\ UNCHANGED <<running, pc, conversation, system_prompt, response, next_call, full_content,
                   turn_start, round_start, visited, turns, registry, round_log, pending,
                   toolVars, quietVars>>

\* client.chat_stream(...) returns; without tools its text is the response
chat_stream_return ==
    /\ at = "chat_stream"
    /\ pc = "ModelRespondingStreaming"
    /\ full_content' = Concat(OllamaClient_chat_stream(requests[1].reply))
    /\ in_flight' = in_flight \ {Activity("request", 1)}
    /\ at' = "main"
    /\ IF cfg.tools_enabled
       THEN UNCHANGED <<pc, conversation, response>>
       ELSE /\ response' = ChatMessage("assistant", full_content')
            /\ conversation' = PushBack(conversation, response')
            /\ pc' = "TurnDone"
    /\ UNCHANGED <<running, system_prompt, next_call, requests, turn_start, round_start,
                   visited, turns, registry, round_log, pending, toolVars, quietVars>>

\* client.chat(...) is entered: the structured request
chat_enter ==
    /\ at = "main"
    /\ pc = "ModelRespondingStreaming"
    /\ Len(requests) = 1
    /\ cfg.tools_enabled
    /\ \E reply \in TurnReplies :
          requests' = Append(requests, Request("chat", conversation, ToolDefinitions, reply))
    /\ in_flight' = in_flight \cup {Activity("request", 2)}
    /\ at' = "chat"
    /\ UNCHANGED <<running, pc, conversation, system_prompt, response, next_call, full_content,
                   turn_start, round_start, visited, turns, registry, round_log, pending,
                   toolVars, quietVars>>

\* client.chat(...) returns: the tool round begins, or the streamed text is stored
chat_return ==
    /\ at = "chat"
    /\ in_flight' = in_flight \ {Activity("request", 2)}
    /\ at' = "main"
    /\ LET message == OllamaClient_chat(requests[2].reply)
       IN  IF HandlesToolCalls(message)
           THEN /\ response' = message
                /\ pc' = "ExecutingTools"
                /\ next_call' = 1
                /\ round_start' = Len(conversation)
                /\ UNCHANGED conversation
           ELSE /\ response' = UseStreamedContent(message, full_content)
                /\ conversation' = PushBack(conversation, response')
                /\ pc' = "TurnDone"
                /\ UNCHANGED <<next_call, round_start>>
    /\ UNCHANGED <<running, system_prompt, full_content, requests, turn_start, visited, turns,
                   registry, round_log, pending, toolVars, quietVars>>

\* if (!tool_manager.has_tool(tool_call.name)) { print; continue; }
tool_not_found ==
    /\ at = "main"
    /\ pc = "ExecutingTools"
    /\ next_call <= Len(response.tool_calls)
    /\ ~ToolManager_has_tool(registry, response.tool_calls[next_call].name)
    /\ round_log' = Append(round_log,
                           Handled(response.tool_calls[next_call], FALSE, ToolResult_error("")))
    /\ next_call' = next_call + 1
    /\ UNCHANGED <<running, pc, conversation, system_prompt, response, full_content, requests,
                   turn_start, round_start, visited, turns, registry, callVars, toolVars,
                   quietVars>>

\* a tool started without waiting for it: the loop goes on to the next call
execute_tool_detached ==
    /\ at = "main"
    /\ pc = "ExecutingTools"
    /\ next_call <= Len(response.tool_calls)
    /\ ToolManager_has_tool(registry, response.tool_calls[next_call].name)
    /\ in_flight' = in_flight \cup {Activity("tool", next_call)}
    /\ next_call' = next_call + 1
    /\ UNCHANGED <<running, pc, conversation, system_prompt, response, full_content, requests,
                   turn_start, round_start, visited, turns, registry, round_log, at, pending,
                   toolVars, quietVars>>

\* tool_manager.execute_tool(tool_call.name, tool_call.arguments) is entered
execute_tool_enter ==
    /\ at = "main"
    /\ pc = "ExecutingTools"
    /\ next_call <= Len(response.tool_calls)
    /\ ToolManager_has_tool(registry, response.tool_calls[next_call].name)
    /\ \E keys \in SessionKeys, env \in SessionEnvs :
          LET tool_call == response.tool_calls[next_call]
              out == ToolManager_execute_tool(registry, tool_call.name, tool_call.arguments,
                                              cfg, keys, env, fs)
          IN  pending' = [n |-> next_call, out |-> out, gates_left |-> Gates(out.trace)]
    /\ in_flight' = in_flight \cup {Activity("tool", next_call)}
    /\ at' = "execute_tool"
    /\ UNCHANGED <<running, pc, conversation, system_prompt, response, next_call, full_content,
                   requests, turn_start, round_start, visited, turns, registry, round_log,
                   toolVars, quietVars>>

\* the tool calls terminal::confirm_dialog and waits for the operator's key
confirm_dialog_enter ==
    /\ at = "execute_tool"
    /\ pending.gates_left > 0
    /\ at' = "confirm_dialog"
    /\ UNCHANGED <<in_flight, pending, orchVars, toolVars, quietVars>>

\* the operator has pressed a key: confirm_dialog returns to the tool
confirm_dialog_return ==
    /\ at = "confirm_dialog"
    /\ pending' = [pending EXCEPT !.gates_left = @ - 1]
    /\ at' = "execute_tool"
    /\ UNCHANGED <<in_flight, orchVars, toolVars, quietVars>>

\* execute_tool returns; conversation.push_back(make_tool_response(...))
execute_tool_return ==
    /\ at = "execute_tool"
    /\ pending.gates_left = 0
    /\ LET tool_call == response.tool_calls[pending.n]
       IN  /\ conversation' = PushBack(conversation,
                  ChatMessage_make_tool_response(ToolMessageContent(pending.out.result),
                                                 tool_call.name))
           /\ round_log' = Append(round_log, Handled(tool_call, TRUE, pending.out.result))
    /\ fs' = pending.out.fs
    /\ next_call' = next_call + 1
    /\ in_flight' = in_flight \ {Activity("tool", pending.n)}
    /\ pending' = NoPending
    /\ at' = "main"
    /\ UNCHANGED <<running, pc, system_prompt, response, full_content, requests, turn_start,
                   round_start, visited, turns, registry, cfg, last, quietVars>>

\* the for loop is over: client.chat_stream(...) is entered for the closing request
final_stream_enter ==
    /\ at = "main"
    /\ pc = "ExecutingTools"
    /\ next_call > Len(response.tool_calls)
    /\ \E reply \in StreamReplies :
          requests' = Append(requests, Request("chat_stream", conversation, ToolDefinitions, reply))
    /\ in_flight' = in_flight \cup {Activity("request", 3)}
    /\ at' = "chat_stream"
    /\ pc' = "ModelRespondingFinal"
    /\ UNCHANGED <<running, conversation, system_prompt, response, next_call, full_content,
                   turn_start, round_start, visited, turns, registry, round_log, pending,
                   toolVars, quietVars>>

\* the closing chat_stream returns; conversation.push_back(response)
final_stream_return ==
    /\ at = "chat_stream"
    /\ pc = "ModelRespondingFinal"
    /\ response' = ChatMessage("assistant", Concat(OllamaClient_chat_stream(requests[3].reply)))
    /\ conversation' = PushBack(conversation, response')
    /\ in_flight' = in_flight \ {Activity("request", 3)}
    /\ at' = "main"
    /\ pc' = "TurnDone"
    /\ UNCHANGED <<running, system_prompt, next_call, full_content, requests, turn_start,
                   round_start, visited, turns, registry, round_log, pending, toolVars,
                   quietVars>>

TurnNext ==
    \/ chat_stream_enter
    \/ chat_stream_return
    \/ chat_enter
    \/ chat_return
    \/ tool_not_found
    \/ execute_tool_enter
    \/ confirm_dialog_enter
    \/ confirm_dialog_return
    \/ execute_tool_return
    \/ final_stream_enter
    \/ final_stream_return

SpecTurn == TurnInit /\ [][TurnNext]_vars

\* the tool executions of the round that have returned
Returned == {i \in DOMAIN round_log : round_log[i].found}

\* C23: at every moment at most one activity, a model request or a tool execution,
\* is in flight, so no request overlaps a tool execution; a tool execution in
\* flight is the one of the next call in order, it stays in flight through its Gate
\* waits, and when it starts every earlier call has been handled: each earlier
\* execution has returned and its tool message is in the transcript.
C23_OneAtATime ==
    /\ Cardinality(in_flight) <= 1
    /\ at = "main" <=> in_flight = {}
    /\ at \in {"chat_stream", "chat"} => \A a \in in_flight : a.kind = "request"
    /\ at \in {"execute_tool", "confirm_dialog"} =>
          /\ in_flight = {Activity("tool", next_call)}
          /\ pending.n = next_call
          /\ Len(round_log) = next_call - 1
          /\ Count(RoundGain, "tool") = Cardinality(Returned)
          /\ Len(RoundGain) = Cardinality(Returned)
    /\ \A a \in in_flight : a.kind = "request" => a.n = Len(requests)

\* C23 witness: the second tool call of the round waits at the Gate; the first has
\* returned and its tool message is the last of the transcript.
C23_Witness ==
    /\ at = "confirm_dialog"
    /\ in_flight = {Activity("tool", 2)}
    /\ Len(round_log) = 1
    /\ round_log[1].found
    /\ Final(conversation).role = "tool"
    /\ Final(conversation).name = CalculatorName

(***************************************************************************)
(* SpecProc: the output read loop of Shell, Bash and Calculator            *)
(*   while (!feof(pipe)) { if (elapsed > timeout) ...; if (fgets(...)) ... }*)
(* followed by pclose, against a subprocess that prints, computes or exits *)
(* as it likes. fgets and pclose are blocking calls: fgets returns when a  *)
(* line is in the pipe or the subprocess has closed it, pclose when the    *)
(* subprocess has terminated.                                              *)
(***************************************************************************)
\* what a subprocess does: the items of prefix in order, then `then` for ever
\* ("line": print a line; "idle": go on without printing; "exit": terminate)
ChildPlans ==
    { ChildQuick,
      [prefix |-> <<"idle", "line", "line", "line">>, then |-> "exit"],
      [prefix |-> <<"idle", "idle">>, then |-> "exit"],
      [prefix |-> <<>>, then |-> "line"],
      [prefix |-> <<"line">>, then |-> "idle"],
      [prefix |-> <<>>, then |-> "idle"] }

ProcInit ==
    /\ cfg = Session(TRUE, TRUE, TRUE, TRUE)
    /\ fs = SessionFs
    /\ last = NoExecution
    /\ OrchInit
    /\ StreamIdle
    /\ TermIdle
    /\ CallIdle
    /\ StartIdle
    /\ proc_tool \in {ShellName, BashName, CalculatorName}
    /\ proc_pc = "feof"
    /\ proc_timeout \in 1..(MaxClock - 1)
    /\ clock = 0
    /\ \E plan \in ChildPlans : child = [alive |-> TRUE, plan |-> plan, pos |-> 1, phase |-> 0]
    /\ pipe = [lines |-> 0, open |-> TRUE]
    /\ eof_flag = FALSE
    /\ out_len = 0
    /\ proc_result = "none"

\* std::chrono::steady_clock goes on
Tick ==
    /\ proc_pc # "returned"
    /\ clock < MaxClock
    /\ clock' = clock + 1
    /\ UNCHANGED <<proc_tool, proc_pc, proc_timeout, child, pipe, eof_flag, out_len,
                   proc_result, notProcVars>>

\* what the subprocess does next
ChildItem ==
    IF child.pos <= Len(child.plan.prefix) THEN child.plan.prefix[child.pos] ELSE child.plan.then

\* the subprocess takes a step of its own
child_step ==
    /\ child.alive
    /\ LET pos == IF child.pos <= Len(child.plan.prefix) THEN child.pos + 1 ELSE child.pos
       IN  \/ /\ ChildItem = "line"
              /\ pipe.open
              /\ pipe.lines <= MaxLines          \* a full pipe blocks the writer
              /\ pipe' = [pipe EXCEPT !.lines = @ + 1]
              /\ child' = [child EXCEPT !.pos = pos]
           \/ /\ ChildItem = "line"
              /\ ~pipe.open                       \* SIGPIPE
              /\ child' = [child EXCEPT !.alive = FALSE]
              /\ UNCHANGED pipe
           \/ /\ ChildItem = "idle"
              /\ child' = [child EXCEPT !.pos = pos, !.phase = 1 - @]
              /\ UNCHANGED pipe
           \/ /\ ChildItem = "exit"
              /\ child' = [child EXCEPT !.alive = FALSE]
              /\ UNCHANGED pipe
    /\ UNCHANGED <<proc_tool, proc_pc, proc_timeout, clock, eof_flag, out_len, proc_result,
                   notProcVars>>

\* while (!feof(pipe))
loop_condition ==
    /\ proc_pc = "feof"
    /\ IF eof_flag
       THEN /\ proc_pc' = "pclose"
            /\ pipe' = [pipe EXCEPT !.open = FALSE]
            /\ proc_result' = "success"
       ELSE /\ proc_pc' = "clock"
            /\ UNCHANGED <<pipe, proc_result>>
    /\ UNCHANGED <<proc_tool, proc_timeout, clock, child, eof_flag, out_len, notProcVars>>

\* if (elapsed > timeout) { timed_out = true; break; }  (Bash, Calculator: pclose, return)
timeout_check ==
    /\ proc_pc = "clock"
    /\ IF clock > proc_timeout
       THEN /\ proc_pc' = "pclose"
            /\ pipe' = [pipe EXCEPT !.open = FALSE]
            /\ proc_result' = "timeout"
       ELSE /\ proc_pc' = "fgets"
            /\ UNCHANGED <<pipe, proc_result>>
    /\ UNCHANGED <<proc_tool, proc_timeout, clock, child, eof_flag, out_len, notProcVars>>

\* fgets(buffer, size, pipe) returns: a line, or nullptr at the end of the output
fgets_return ==
    /\ proc_pc = "fgets"
    /\ pipe.lines > 0 \/ ~child.alive
    /\ IF pipe.lines > 0
       THEN /\ out_len' = out_len + 1
            /\ UNCHANGED eof_flag
            /\ IF out_len + 1 > MaxLines
               THEN /\ proc_pc' = "pclose"
                    /\ pipe' = [lines |-> pipe.lines - 1, open |-> FALSE]
                    /\ proc_result' = IF proc_tool = CalculatorName THEN "too_large"
                                      ELSE "success"
               ELSE /\ proc_pc' = "feof"
                    /\ pipe' = [pipe EXCEPT !.lines = @ - 1]
                    /\ UNCHANGED proc_result
       ELSE /\ eof_flag' = TRUE
            /\ proc_pc' = "feof"
            /\ UNCHANGED <<pipe, out_len, proc_result>>
    /\ UNCHANGED <<proc_tool, proc_timeout, clock, child, notProcVars>>

\* pclose(pipe) returns: the subprocess has terminated; the tool returns its result
pclose_return ==
    /\ proc_pc = "pclose"
    /\ ~child.alive
    /\ proc_pc' = "returned"
    /\ UNCHANGED <<proc_tool, proc_timeout, clock, child, pipe, eof_flag, out_len, proc_result,
                   notProcVars>>

\* the steps of the tool's thread
ProcThread == loop_condition \/ timeout_check \/ fgets_return \/ pclose_return

ProcNext ==
    \/ Tick
    \/ child_step
    \/ loop_condition
    \/ timeout_check
    \/ fgets_return
    \/ pclose_return

\* the thread runs whenever it is not blocked, the subprocess runs, time passes
SpecProc ==
    /\ ProcInit
    /\ [][ProcNext]_vars
    /\ WF_vars(ProcThread)
    /\ WF_vars(child_step)
    /\ WF_vars(Tick)

\* C24: for every behaviour of the subprocess the tool eventually returns, and
\* when the clock has passed the timeout inside the loop it returns a timeout error.
C24_AlwaysReturns ==
    /\ <>(proc_pc = "returned")
    /\ [](proc_pc = "returned" => proc_result \in {"success", "timeout", "too_large"})

\* a step of signal_handler: the flag is cleared and the thread has not moved
InterruptStep == running /\ ~running' /\ pc' = pc

\* C25: an interrupt signal only clears the running flag (the transcript, the
\* requests and the tool state are as before and the thread is where it was),
\* and once the flag is cleared no new user turn is started.
C25_InterruptStopsTurns ==
    [][ /\ InterruptStep =>
            UNCHANGED <<pc, conversation, system_prompt, response, next_call, full_content,
                        requests, turn_start, round_start, visited, turns, registry,
                        round_log, toolVars, streamVars, sideVars>>
        /\ ~running => turns' = turns ]_vars

\* C26: once the REPL is running no error ends the process or the loop: the
\* process is never terminated by an exception, and the loop is left only at the
\* prompt (exit command, end of input) or at the loop condition after an
\* interrupt cleared the flag.
C26_ErrorsNeverEndTheLoop ==
    [][ /\ pc' # "Aborted"
        /\ (pc' = "Exited" /\ pc # "Exited") =>
              \/ pc = "AwaitingUserInput"
              \/ pc = "LoopCheck" /\ ~running ]_vars

\* the turn that just ended made its two requests with tools enabled and the
\* structured response asked for no tool call
AnsweredWithoutCalls ==
    /\ pc = "LoopCheck"
    /\ TurnEnded
    /\ cfg.tools_enabled
    /\ Len(requests) = 2
    /\ Requested = <<>>

\* C27: when the structured response of a turn has no tool calls, the assistant
\* message stored for the turn has exactly the concatenation of the fragments
\* streamed in the turn as its content, whatever the structured response said.
C27_StreamedTextIsCanonical ==
    AnsweredWithoutCalls =>
        TurnGain = <<ChatMessage("assistant", Concat(requests[1].reply.fragments))>>

C27_Witness ==
    /\ AnsweredWithoutCalls
    /\ requests[2].reply.content = "Hi!"
    /\ Final(conversation).content = "Hello"

\* the messages the current turn has stored after its user message are tool messages
OnlyToolMessagesSoFar ==
    \A j \in (turn_start + 2)..Len(conversation) : conversation[j].role = "tool"

\* C30: a tool message enters the transcript only during the tool round of a
\* user turn, as the last message, after the turn's user message and with no
\* assistant message of the turn before it, and its name is the name of a tool
\* call of the turn's assistant response; the message that closes such a turn is
\* the assistant's, after all of the turn's tool messages.
C30_ToolMessagesInTheirRound ==
    /\ [][ \A i \in DOMAIN conversation' :
             conversation'[i].role = "tool" =>
                \/ i \in DOMAIN conversation /\ conversation[i] = conversation'[i]
                \/ /\ pc = "ExecutingTools"
                   /\ Len(conversation') = Len(conversation) + 1
                   /\ i = Len(conversation')
                   /\ i > turn_start + 1
                   /\ conversation[turn_start + 1].role = "user"
                   /\ OnlyToolMessagesSoFar
                   /\ \E k \in DOMAIN Requested : Requested[k].name = conversation'[i].name ]_vars
    /\ []((pc = "LoopCheck" /\ TurnEnded /\ HadToolRound) =>
             /\ Final(conversation).role = "assistant"
             /\ \A j \in (turn_start + 2)..(Len(conversation) - 1) : conversation[j].role = "tool")

C30_Witness ==
    /\ pc = "LoopCheck"
    /\ TurnEnded
    /\ HadToolRound
    /\ turns = 2
    /\ conversation[turn_start + 2].role = "tool"
    /\ conversation[turn_start + 2].name = FileWriteName
    /\ \E j \in 1..turn_start : conversation[j].role = "tool"

(***************************************************************************)
(* SpecStart: main from the command line to the REPL (main.cpp:68-215) and *)
(* the configuration file (config/config.cpp)                              *)
(***************************************************************************)
DefaultPath == "~/.config/neoneo/config.json"
AltPath == "alt.json"

\* the settings Config::to_json writes
StringKeys == {"model", "host"}
BoolKeys == {"enable_tools", "debug_mode", "enable_shell", "auto_confirm_shell",
             "enable_model_list", "enable_file_ops", "auto_confirm_file_ops",
             "ignore_calc_safety", "ignore_shell_safety"}
ConfigKeys == StringKeys \cup BoolKeys

\* Config::Config(): the member initialisers are in config.hpp; the files and
\* flags below range over values on both sides of every initialiser used here
Config_default ==
    [model |-> "default-model", host |-> "http://localhost:11434",
     enable_tools |-> FALSE, debug_mode |-> FALSE, enable_shell |-> FALSE,
     auto_confirm_shell |-> FALSE, enable_model_list |-> FALSE, enable_file_ops |-> FALSE,
     auto_confirm_file_ops |-> FALSE, ignore_calc_safety |-> FALSE,
     ignore_shell_safety |-> FALSE, config_file_path |-> ""]

\* Config::to_json
Config_to_json(c) ==
    [k \in ConfigKeys |-> IF k \in StringKeys THEN JStr(c[k]) ELSE JBool(c[k])]

\* Config::from_json: a default Config, then every key that is present with the right type
Config_from_json(json) ==
    [k \in DOMAIN Config_default |->
        IF /\ k \in ConfigKeys
           /\ k \in DOMAIN json
           /\ json[k].t = (IF k \in StringKeys THEN "string" ELSE "boolean")
        THEN json[k].v
        ELSE Config_default[k]]

\* Config::load_from_file: false, and the object as it was, when the file is
\* missing or does not parse; otherwise *this = from_json(...) and the path
Config_load_from_file(c, path, files) ==
    IF ~files[path].exists \/ ~files[path].valid
    THEN [loaded |-> FALSE, config |-> c]
    ELSE [loaded |-> TRUE,
          config |-> [Config_from_json(files[path].json) EXCEPT !.config_file_path = path]]

\* Config::save_to_file: to_json().dump(4) into the file, when it can be opened
Config_save_to_file(c, path, files, opened) ==
    IF opened
    THEN [files EXCEPT ![path] = [exists |-> TRUE, valid |-> TRUE, json |-> Config_to_json(c)]]
    ELSE files

\* the flags that switch a setting on, and the setting each one switches
FlagKey(arg) ==
    CASE arg \in {"-t", "--tools"} -> "enable_tools"
      [] arg \in {"-d", "--debug"} -> "debug_mode"
      [] arg \in {"-s", "--shell"} -> "enable_shell"
      [] arg = "--auto-confirm" -> "auto_confirm_shell"
      [] arg = "--auto-confirm-files" -> "auto_confirm_file_ops"
      [] arg = "--ignore-calc-safety" -> "ignore_calc_safety"
      [] arg = "--ignore-shell-safety" -> "ignore_shell_safety"
      [] arg = "--model-list" -> "enable_model_list"
      [] arg \in {"--file-ops", "-f"} -> "enable_file_ops"
      [] OTHER -> ""

\* the options that take the next argument as their value
ValueOptions == {"-m", "--model", "--host", "--config"}
\* every option the parsing loop knows
KnownOptions ==
    {"-h", "--help", "-l", "--list", "--save-config", "--no-config",
     "-t", "--tools", "-d", "--debug", "-s", "--shell", "--auto-confirm",
     "--auto-confirm-files", "--ignore-calc-safety", "--ignore-shell-safety",
     "--model-list", "--file-ops", "-f"} \cup ValueOptions
\* arg[0] == '-'
StartsWithDash(arg) == arg \in KnownOptions \cup {"-x"}

\* the pieces command lines are made of
ArgUnits ==
    { <<"-t">>, <<"-d">>, <<"-m", "m1">>, <<"--config", AltPath>>, <<"--save-config">>,
      <<"--no-config">>, <<"-l">>, <<"m2">>, <<"--config">>, <<"-x">>, <<"-h">> }

CommandLines ==
    {<<>>} \cup ArgUnits
           \cup {u \o v : u \in ArgUnits, v \in ArgUnits}
           \cup {u \o v \o w : u \in {<<"-t">>, <<"-m", "m1">>, <<"--config", AltPath>>},
                               v \in ArgUnits, w \in ArgUnits}

\* configuration files as they may lie on the disk
ValidFile(json) == [exists |-> TRUE, valid |-> TRUE, json |-> json]
BrokenFile == [exists |-> TRUE, valid |-> FALSE, json |-> [k \in {} |-> JNull]]
FileWithTools ==
    ValidFile(Config_to_json([Config_default EXCEPT !.model = "m9", !.enable_tools = TRUE]))
FileWithDefaults == ValidFile(Config_to_json(Config_default))
FilePartial == ValidFile(("enable_shell" :> JBool(TRUE)) @@ ("debug_mode" :> JStr("yes")))

Disks ==
    { (DefaultPath :> d) @@ (AltPath :> a) :
          d \in {NoFile, FileWithDefaults, FileWithTools},
          a \in {NoFile, BrokenFile, FileWithTools, FilePartial} }

StartInit ==
    /\ cfg = Session(TRUE, TRUE, TRUE, TRUE)
    /\ fs = SessionFs
    /\ last = NoExecution
    /\ OrchInit
    /\ StreamIdle
    /\ TermIdle
    /\ CallIdle
    /\ ProcIdle
    /\ argv \in CommandLines
    /\ arg_i = 1
    /\ main_config = Config_default
    /\ config_file_path = DefaultPath
    /\ use_config = TRUE
    /\ save_config = FALSE
    /\ list_models = FALSE
    /\ start_pc = "args"
    /\ disk \in Disks

\* one round of for (int i = 1; i < argc; ++i)
ParseArg ==
    /\ start_pc = "args"
    /\ arg_i <= Len(argv)
    /\ LET arg == argv[arg_i]
           more == arg_i + 1 <= Len(argv)
           value == argv[arg_i + 1]
           positional == arg \notin KnownOptions /\ arg_i = Len(argv) /\ ~StartsWithDash(arg)
           stops == \/ arg \in {"-h", "--help"}
                    \/ arg \in ValueOptions /\ ~more
                    \/ arg \notin KnownOptions /\ ~positional
       IN  /\ start_pc' = IF arg \in {"-h", "--help"} THEN "exit0"
                          ELSE IF stops THEN "exit1" ELSE "args"
           /\ arg_i' = IF stops THEN arg_i
                       ELSE IF arg \in ValueOptions THEN arg_i + 2 ELSE arg_i + 1
           /\ main_config' =
                 IF stops THEN main_config
                 ELSE IF arg \in {"-m", "--model"} THEN [main_config EXCEPT !.model = value]
                 ELSE IF arg = "--host" THEN [main_config EXCEPT !.host = value]
                 ELSE IF FlagKey(arg) # "" THEN [main_config EXCEPT ![FlagKey(arg)] = TRUE]
                 ELSE IF positional THEN [main_config EXCEPT !.model = arg]
                 ELSE main_config
           /\ config_file_path' = IF arg = "--config" /\ more THEN value ELSE config_file_path
           /\ list_models' = (list_models \/ arg \in {"-l", "--list"})
           /\ save_config' = (save_config \/ arg = "--save-config")
           /\ use_config' = (use_config /\ arg # "--no-config")
    /\ UNCHANGED <<argv, disk, notStartVars>>

\* bool cli_options_provided = argc > 1 && !list_models && !save_config
cli_options_provided == Len(argv) > 0 /\ ~list_models /\ ~save_config

\* if (use_config && (!cli_options_provided || save_config)) config.load_from_file(...)
LoadConfig ==
    /\ start_pc = "args"
    /\ arg_i > Len(argv)
    /\ main_config' =
          IF use_config /\ (~cli_options_provided \/ save_config)
          THEN Config_load_from_file(main_config, config_file_path, disk).config
          ELSE main_config
    /\ start_pc' = "save"
    /\ UNCHANGED <<argv, arg_i, config_file_path, use_config, save_config, list_models, disk,
                   notStartVars>>

\* if (save_config) { if (config.save_to_file(config_file_path)) ... else return 1; }
SaveConfig ==
    /\ start_pc = "save"
    /\ IF save_config
       THEN \E opened \in BOOLEAN :
               /\ disk' = Config_save_to_file(main_config, config_file_path, disk, opened)
               /\ start_pc' = IF ~opened THEN "exit1"
                              ELSE IF ~cli_options_provided THEN "exit0" ELSE "connect"
       ELSE /\ start_pc' = "connect"
            /\ UNCHANGED disk
    /\ UNCHANGED <<argv, arg_i, main_config, config_file_path, use_config, save_config,
                   list_models, notStartVars>>

\* client.connect(), then the listing of -l, then the session
Connect ==
    /\ start_pc = "connect"
    /\ \E connected \in BOOLEAN :
          start_pc' = IF ~connected THEN "exit1"
                      ELSE IF list_models THEN "exit0" ELSE "session"
    /\ UNCHANGED <<argv, arg_i, main_config, config_file_path, use_config, save_config,
                   list_models, disk, notStartVars>>

StartNext ==
    \/ ParseArg
    \/ LoadConfig
    \/ SaveConfig
    \/ Connect

SpecStart == StartInit /\ [][StartNext]_vars

\* the settings the command line states: <<key, value>>
Given ==
    {<<FlagKey(argv[k]), TRUE>> : k \in {n \in DOMAIN argv : FlagKey(argv[n]) # ""}}
    \cup {<<"model", argv[k + 1]>> :
             k \in {n \in DOMAIN argv : argv[n] \in {"-m", "--model"} /\ n < Len(argv)}}
    \cup {<<"model", argv[k]>> :
             k \in {n \in DOMAIN argv : n = Len(argv) /\ argv[n] \notin KnownOptions
                                        /\ ~StartsWithDash(argv[n])
                                        /\ (n = 1 \/ argv[n - 1] \notin ValueOptions)}}
GivenKeys == {g[1] : g \in Given}

\* the command line names the file with --config and has no --no-config
ConfigFileNamed(path) ==
    /\ \E k \in DOMAIN argv : argv[k] = "--config" /\ k < Len(argv) /\ argv[k + 1] = path
    /\ \A k \in DOMAIN argv : argv[k] # "--no-config"

\* the file is there, parses, and every setting in it has the type of the setting
HoldsValidConfiguration(file) ==
    /\ file.exists
    /\ file.valid
    /\ \A k \in DOMAIN file.json :
          k \in ConfigKeys /\ file.json[k].t = (IF k \in StringKeys THEN "string" ELSE "boolean")

\* C28: started with --config FILE and without --no-config, FILE a valid
\* configuration file, the session runs with the configuration loaded from FILE
\* (in every setting the command line does not state itself).
C28_NamedConfigFileUsed ==
    (start_pc = "session" /\ ConfigFileNamed(AltPath) /\ HoldsValidConfiguration(disk[AltPath])) =>
        /\ main_config.config_file_path = AltPath
        /\ \A k \in ConfigKeys \ GivenKeys :
              main_config[k] = Config_from_json(disk[AltPath].json)[k]

\* C29: after --save-config has written the file, the file holds every setting
\* the command line states, whether or not the file existed before.
C29_SavedFileHoldsFlags ==
    (save_config /\ start_pc = "exit0" /\ arg_i > Len(argv)) =>
        /\ disk[config_file_path].exists
        /\ disk[config_file_path].valid
        /\ \A g \in Given :
              (\A h \in Given : h[1] = g[1] => h = g) =>
                  disk[config_file_path].json[g[1]].v = g[2]

\* the bytes of text after its last newline
RECURSIVE AfterLastNewline(_)
AfterLastNewline(text) ==
    IF ~Contains(text, "\n") THEN text
    ELSE AfterLastNewline(SubSeq(text, FindPos(text, "\n") + 1, Len(text)))

\* C31: after every read the streaming client has handled, its buffer is exactly
\* what was received after the last newline (so it holds no newline), nothing of
\* that partial record has been emitted, and every completed line has been
\* handled once: the fragments are those of the complete lines received.
C31_BufferIsPartialLine ==
    stream_pc \in {"receiving", "done"} =>
        /\ response_buffer = AfterLastNewline(sent)
        /\ ~Contains(response_buffer, "\n")
        /\ Len(emitted) = Len(SelectText(LinesOf(sent)))
        /\ Concat(emitted) = SingleShotText(SubSeq(sent, 1, Len(sent) - Len(response_buffer)))

\* C31 witness: in the middle of a stream, a fragment has been emitted and the
\* buffer holds the beginning of the next record, which has not been emitted
C31_Witness ==
    /\ stream_pc = "receiving"
    /\ emitted = <<"Hel">>
    /\ response_buffer # ""
    /\ response_buffer # RecordLo
    /\ sent # wire

\* the first two requests of the turn, in so far as they have been made: the
\* streaming one, then (tools enabled only) the non-streaming one over the same
\* transcript and the same tool definitions
ResponsePhaseRequests ==
    /\ Len(requests) >= 1 => requests[1].kind = "chat_stream"
    /\ Len(requests) >= 2 =>
          /\ cfg.tools_enabled
          /\ requests[2].kind = "chat"
          /\ requests[2].messages = requests[1].messages
          /\ requests[2].tools = requests[1].tools

\* a user turn is over and the loop is back at its condition
TurnOver == pc = "LoopCheck" /\ TurnEnded

\* C32 as stated: with tools enabled every user turn issues exactly one streaming
\* and then exactly one non-streaming request over the same transcript and tool
\* definitions, with tools disabled only the streaming one.
C32_TwoRequestsPerTurn ==
    /\ ResponsePhaseRequests
    /\ TurnOver => Len(requests) = (IF cfg.tools_enabled THEN 2 ELSE 1)

\* C32 amended: the turn opens with one streaming request and, with tools enabled,
\* one non-streaming request over the same transcript and tool definitions; a turn
\* whose structured response asked for tools issues one more streaming request,
\* after the tool round, over the transcript with the tool messages; no turn
\* issues any other request.
C32_RequestsOfATurn ==
    /\ ResponsePhaseRequests
    /\ Len(requests) <= 3
    /\ Len(requests) = 3 =>
          /\ visited # <<>> => HadToolRound
          /\ requests[3].kind = "chat_stream"
          /\ requests[3].tools = requests[1].tools
          /\ IsPrefix(requests[1].messages, requests[3].messages)
    /\ TurnOver =>
          Len(requests) = (IF ~cfg.tools_enabled THEN 1 ELSE IF HadToolRound THEN 3 ELSE 2)

C32_Witness ==
    /\ TurnOver
    /\ cfg.tools_enabled
    /\ HadToolRound
    /\ Len(requests) = 3
    /\ Len(requests[3].messages) > Len(requests[1].messages)

\* the transcript is the system prompt followed by messages of other roles
SystemPromptFirst ==
    /\ conversation # <<>>
    /\ conversation[1] = ChatMessage("system", system_prompt)
    /\ \A i \in 2..Len(conversation) : conversation[i].role # "system"

\* a step that changes the system prompt or the first message, or shortens the transcript
PromptStep ==
    \/ system_prompt' # system_prompt
    \/ Len(conversation') < Len(conversation)
    \/ conversation'[1] # conversation[1]

\* C34: in every state the transcript is non-empty, its first message is its only
\* system message and holds the current system prompt; the transcript shrinks
\* only to the one message of the current prompt (/reset), and the prompt
\* changes only together with the content of the first message, every other
\* message staying as it was (/setprompt).
C34_SystemPromptFirst ==
    /\ []SystemPromptFirst
    /\ [][ PromptStep =>
              /\ pc = "AwaitingUserInput"
              /\ \/ /\ conversation' = <<ChatMessage("system", system_prompt)>>
                    /\ system_prompt' = system_prompt
                 \/ /\ conversation' = [conversation EXCEPT ![1].content = system_prompt']
                    /\ system_prompt' # system_prompt ]_vars

\* C34 witness: after a turn, /setprompt and /reset, the transcript is the single
\* message of the new prompt
C34_Witness ==
    /\ turns = 1
    /\ system_prompt = "Be brief."
    /\ conversation = <<ChatMessage("system", "Be brief.")>>
    /\ pc = "LoopCheck"

\* C35: no message of the transcript carries tool calls; while a tool round runs
\* the turn has stored nothing but tool messages after its user message, and
\* when such a turn is over its only assistant message is the closing one, last
\* and after all its tool messages: the response that asked for the tools and the
\* text streamed with it are in no message.
C35_RequestingResponseDiscarded ==
    /\ \A i \in DOMAIN conversation : conversation[i].tool_calls = <<>>
    /\ pc \in {"HasToolCalls", "ExecutingTools", "ModelRespondingFinal"} =>
          /\ response.tool_calls # <<>>
          /\ conversation[turn_start + 1].role = "user"
          /\ \A i \in DOMAIN TurnGain : TurnGain[i].role = "tool"
    /\ (TurnOver /\ HadToolRound) =>
          /\ Final(conversation) = ChatMessage("assistant", Concat(requests[3].reply.fragments))
          /\ \A i \in 1..(Len(TurnGain) - 1) : TurnGain[i].role = "tool"

\* C35 witness: a tool round is over; the response that asked for the tool had a
\* text and so had the stream before it, a tool message was stored and the
\* closing text is another one
C35_Witness ==
    /\ TurnOver
    /\ HadToolRound
    /\ requests[2].reply.content = "calling"
    /\ requests[1].reply.fragments = <<"Hel", "lo">>
    /\ requests[3].reply.fragments = <<>>
    /\ Len(TurnGain) = 2
    /\ TurnGain[1].role = "tool"

\* C36: the empty line and the commands /help, /tools, /config, /models, /prompt
\* and /template change neither the transcript, nor the configuration, nor the
\* tool registry, and they make no chat request and run no tool.
C36_InfoCommandsChangeNothing ==
    [][ (InputInfo \/ InputEmpty) =>
           UNCHANGED <<conversation, system_prompt, cfg, registry, requests, round_log,
                       fs, last, response, turns>> ]_vars

\* C36 witness: back at the loop condition after a command, with a transcript of
\* a finished turn and its requests as they were
C36_Witness ==
    /\ pc = "LoopCheck"
    /\ visited = <<>>
    /\ turns = 1
    /\ Len(conversation) = 3
    /\ Len(requests) = 2
    /\ system_prompt = DefaultSystemPrompt

\* the timeout the arguments ask for is above max, or below 1
AsksAbove(args, max) ==
    JIsNumber(args, "timeout")
    /\ (JHigh(args.v["timeout"]) > 0 \/ (JHigh(args.v["timeout"]) = 0 /\ args.v["timeout"].v > max))
AsksBelowOne(args) ==
    JIsNumber(args, "timeout")
    /\ (JHigh(args.v["timeout"]) < 0 \/ (JHigh(args.v["timeout"]) = 0 /\ args.v["timeout"].v < 1))

\* the effective timeout is in 1..max, the default without a numeric timeout,
\* max for a request above max and 1 for a request below 1
TimeoutClamped(effective, args, max, default) ==
    /\ effective \in 1..max
    /\ ~JIsNumber(args, "timeout") => effective = default
    /\ AsksAbove(args, max) => effective = max
    /\ AsksBelowOne(args) => effective = 1

\* C33: for every Shell and Bash execution with a command, the effective timeout
\* is within 1..30 (Shell) or 1..60 (Bash), is 5 or 10 when no numeric timeout is
\* given, the ceiling when more than the ceiling is asked and 1 when less than 1
\* is asked.
C33_TimeoutClamped ==
    /\ (last.tool = ShellName /\ JIsString(last.args, "command")) =>
          TimeoutClamped(ShellTool_timeout(last.args), last.args,
                         ShellTimeoutMax, ShellTimeoutDefault)
    /\ (last.tool = BashName /\ JIsString(last.args, "command")) =>
          TimeoutClamped(BashTool_timeout(last.args), last.args,
                         BashTimeoutMax, BashTimeoutDefault)

\* the command line the tool works on, and the blocklist entry found in it
GatedCommand(ex) ==
    IF ex.tool = BashName THEN BashTool_command(ex.args) ELSE JGet(ex.args, "command")
GatedFound(ex) ==
    IF ex.tool = BashName
    THEN BashTool_operation_found(GatedCommand(ex))
    ELSE ShellTool_operation_found(GatedCommand(ex))
BlocklistPrompt(ex) ==
    Ev("gate", "'" \o GatedFound(ex) \o "' found in: " \o GatedCommand(ex))
GeneralPrompt(ex) == Ev("gate", GatedCommand(ex))

\* the prompts the execution should have shown, in order
PromptsDue(ex, config) ==
    LET blocked == BlocklistMatch(ex) /\ ~config.shell_safety_ignored
        general == /\ ~config.auto_confirm_shell
                   /\ blocked => confirm_dialog(KeyAt(ex.keys, 1))
    IN  (IF blocked THEN <<BlocklistPrompt(ex)>> ELSE <<>>)
        \o (IF general THEN <<GeneralPrompt(ex)>> ELSE <<>>)

IsGate(ev) == ev.e = "gate"
\* the execution went on to popen: a subprocess was spawned, or popen itself failed
PopenCalled(ex) ==
    \/ Positions(ex.out.trace, {"spawn"}) # {}
    \/ /\ ~ex.env.popen_ok
       /\ ex.out.result \in { ToolResult_error("Failed to execute command"),
                              ToolResult_success("Error: Failed to execute command") }

\* C37: for a Shell or Bash execution with a string command, the prompts shown are
\* the blocklist prompt (iff the command matches the blocklist and shell safety is
\* not ignored) followed by the general confirmation (iff auto-confirm-shell is
\* false and the blocklist prompt, if shown, was confirmed): 0, 1 or 2 Gate
\* invocations, all before the subprocess; the tool goes on to popen iff every
\* prompt shown was confirmed, and a subprocess is spawned only then.
C37_BlocklistPromptThenGeneral ==
    (last.tool \in {ShellName, BashName} /\ JIsString(last.args, "command")) =>
        LET tr  == last.out.trace
            due == PromptsDue(last, cfg)
        IN  /\ SelectSeq(tr, IsGate) = due
            /\ Gates(tr) \in 0..2
            /\ \A i \in Positions(tr, {"gate"}) : i <= Len(due)
            /\ PopenCalled(last) <=> (\A n \in 1..Len(due) : confirm_dialog(KeyAt(last.keys, n)))
            /\ Positions(tr, {"spawn"}) # {} =>
                  /\ Positions(tr, {"spawn"}) = {Len(due) + 1}
                  /\ ~Denied(last)

\* C37 witness: a blocklisted shell command, both prompts shown in order and
\* confirmed, the subprocess spawned after them
C37_Witness ==
    /\ last.tool = ShellName
    /\ last.args = Cmd("rm x")
    /\ ~cfg.shell_safety_ignored
    /\ ~cfg.auto_confirm_shell
    /\ last.out.trace = << Ev("gate", "'rm' found in: rm x"), Ev("gate", "rm x"),
                           Ev("spawn", "rm x 2>&1") >>

\* the full command line of a Bash call: cd "<dir>" && <command> when a
\* working_directory string is given, the command itself otherwise
FullCommandLine(args) ==
    IF "working_directory" \in DOMAIN args.v /\ args.v["working_directory"].t = "string"
    THEN "cd \"" \o args.v["working_directory"].v \o "\" && " \o args.v["command"].v
    ELSE args.v["command"].v

\* some entry of the Bash blocklist occurs in the text
HasBlockedOperation(text) ==
    \E k \in 1..Len(BashBlockedCommands) : Contains(text, BashBlockedCommands[k])

\* the text of a blocklist prompt ends with the command it warns about
WarnsAbout(text, command) ==
    /\ Len(text) >= Len(command)
    /\ SubSeq(text, Len(text) - Len(command) + 1, Len(text)) = command
    /\ Contains(text, "' found in: ")

\* C38: for a Bash execution with a string command, the blocklist prompt is shown
\* (shell safety not ignored) exactly when the full command line, working-directory
\* prefix included, holds a blocked operation; every prompt shows that full command
\* line; and the command spawned is that same text followed by " 2>&1".
C38_BashGatesTheFullCommandLine ==
    (last.tool = BashName /\ JIsString(last.args, "command")) =>
        LET tr   == last.out.trace
            full == FullCommandLine(last.args)
        IN  /\ ~cfg.shell_safety_ignored =>
                  ( HasBlockedOperation(full)
                    <=> (tr # <<>> /\ tr[1].e = "gate" /\ WarnsAbout(tr[1].text, full)
                         /\ tr[1].text # full) )
            /\ \A i \in Positions(tr, {"gate"}) :
                  tr[i].text = full \/ WarnsAbout(tr[i].text, full)
            /\ \A i \in Positions(tr, {"spawn"}) : tr[i].text = full \o " 2>&1"
            /\ (~cfg.auto_confirm_shell /\ Positions(tr, {"spawn"}) # {}) =>
                  \E i \in Positions(tr, {"gate"}) : tr[i].text = full

\* C38 witness: a blocked operation placed in working_directory was shown at both
\* prompts as part of the full command line, confirmed and run
C38_Witness ==
    /\ last.tool = BashName
    /\ last.args = JObj([command |-> JStr("ls"),
                         working_directory |-> JStr("x\"; rm -rf \"/")])
    /\ ~cfg.shell_safety_ignored
    /\ ~cfg.auto_confirm_shell
    /\ last.out.trace =
          << Ev("gate", "'rm -rf' found in: cd \"x\"; rm -rf \"/\" && ls"),
             Ev("gate", "cd \"x\"; rm -rf \"/\" && ls"),
             Ev("spawn", "cd \"x\"; rm -rf \"/\" && ls 2>&1") >>

\* the part of a server output up to and including its last newline
TerminatedPart(text) == SubSeq(text, 1, Len(text) - Len(AfterLastNewline(text)))

\* C39: when the stream has ended and the server output does not end with a
\* newline, the bytes after the last newline are still in the buffer, unparsed,
\* and the text emitted is that of the newline-terminated records only: the
\* content of a final record without trailing newline is not in it.
C39_UnterminatedTailNeverEmitted ==
    (stream_pc = "done" /\ AfterLastNewline(wire) # "") =>
        /\ response_buffer = AfterLastNewline(wire)
        /\ Concat(emitted) = SingleShotText(TerminatedPart(wire))
        /\ Len(emitted) = Len(SelectText(LinesOf(TerminatedPart(wire))))
        /\ wire = RecordHel \o "\n" \o RecordLo => emitted = <<"Hel">>

\* C39 witness: the stream Hel, lo without a final newline has ended; the record
\* of lo is in the buffer and only Hel was emitted
C39_Witness ==
    /\ stream_pc = "done"
    /\ wire = RecordHel \o "\n" \o RecordLo
    /\ response_buffer = RecordLo
    /\ LineParse(response_buffer).ok
    /\ Concat(emitted) = "Hel"

EvaluatorHead == "echo '"
EvaluatorTail == "' | BC_LINE_LENGTH=0 bc -l"

\* the command of a Calculator subprocess is the evaluator pipeline around a text
RunsEvaluator(cmd) ==
    /\ Len(cmd) >= Len(EvaluatorHead) + Len(EvaluatorTail)
    /\ SubSeq(cmd, 1, Len(EvaluatorHead)) = EvaluatorHead
    /\ SubSeq(cmd, Len(cmd) - Len(EvaluatorTail) + 1, Len(cmd)) = EvaluatorTail
\* the expression text inside the command of a Calculator subprocess
HandedToEvaluator(cmd) ==
    SubSeq(cmd, Len(EvaluatorHead) + 1, Len(cmd) - Len(EvaluatorTail))

OnlyAllowedChars(text) ==
    \A k \in 1..Len(text) : Contains(CalcAllowedChars, SubSeq(text, k, k))

\* C40: for every expression and every configuration, the text Calculator hands
\* to the evaluator holds only characters of the allowed set, is at most 500
\* characters long and is the beginning of the sanitized expression; without
\* ignore-calc-safety the Gate is invoked exactly when the whole sanitized
\* expression, before it is cut to 500 characters, holds a blocked pattern.
C40_EvaluatorSeesSanitizedText ==
    (last.tool = CalculatorName /\ JIsString(last.args, "expression")) =>
        LET tr == last.out.trace
            sanitized == CalculatorTool_sanitize(JGet(last.args, "expression"))
        IN  /\ \A i \in Positions(tr, {"spawn"}) :
                  /\ RunsEvaluator(tr[i].text)
                  /\ OnlyAllowedChars(HandedToEvaluator(tr[i].text))
                  /\ Len(HandedToEvaluator(tr[i].text)) <= 500
                  /\ HandedToEvaluator(tr[i].text)
                        = SubSeq(sanitized, 1, Len(HandedToEvaluator(tr[i].text)))
                  /\ Len(sanitized) <= 500 => HandedToEvaluator(tr[i].text) = sanitized
            /\ OnlyAllowedChars(sanitized)
            /\ ~cfg.calc_safety_ignored =>
                  ( Gates(tr) = 1
                    <=> \E k \in 1..Len(CalcBlockedPatterns) :
                           Contains(sanitized, CalcBlockedPatterns[k]) )
            /\ cfg.calc_safety_ignored => Gates(tr) = 0

\* C40 witness: with ignore-calc-safety set, an expression of 504 characters whose
\* sanitized text has 503 and ends with a blocked pattern was handed to the
\* evaluator cut to 500 allowed characters
C40_Witness ==
    /\ last.tool = CalculatorName
    /\ last.args = Expr(LongExpression)
    /\ cfg.calc_safety_ignored
    /\ Len(CalculatorTool_sanitize(LongExpression)) = 503
    /\ Positions(last.out.trace, {"spawn"}) = {1}
    /\ Len(HandedToEvaluator(last.out.trace[1].text)) = 500
    /\ ~Contains(HandedToEvaluator(last.out.trace[1].text), "rm")

====
